---- MODULE Spec2Model ----
(***************************************************************************)
(* ZapDine: loyalty bookkeeping triggers, point calculation, default staff *)
(* roles and the fail-open email handlers, as state machines.              *)
(*                                                                         *)
(* Money and rates are numeric(_,2) columns: they are held as integers in  *)
(* hundredths (total 50.00 is 5000, points_per_dollar 2.00 is 200).        *)
(* A nullable column holds NULL (the empty tuple) or <<value>>.            *)
(***************************************************************************)
EXTENDS Integers, Sequences, FiniteSets, Bags, TLC

VARIABLES
    customer_profiles,  \* id -> [total_visits, total_spent, loyalty_points]
    orders,             \* id -> order row
    order_seq,          \* number of order ids handed out so far
    last,               \* the last statement run against orders / profiles
    credit_count,       \* per order id: how often the trigger credited a profile
    tx,                 \* transaction id -> state of a concurrent transaction
    loyalty_programs,   \* id -> loyalty program row
    calc,               \* the last calculate_loyalty_points call and its result
    restaurants,        \* ids of the restaurant rows
    staff_roles,        \* <<restaurant, name>> -> number of staff_roles rows
    roles_last,         \* the last statement run against restaurants / staff_roles
    env,                \* the edge functions' environment: secret -> setting
    request,            \* the last request an email handler served
    response,           \* the response it returned
    send_called,        \* whether it called resend.emails.send
    serving,            \* where the handler stands in that request, and the secrets it read
    user_profiles,      \* the profiles table: user id -> row
    auth_users,         \* the auth backend's users: user id -> user
    sessions,           \* session -> its authService call in progress
    auth,               \* the last authService call, its backend calls and result
    signups,            \* caller -> the signUp call it has in progress
    page,               \* the Auth page's useState values
    inflight,           \* the bag of handleSubmit calls awaiting their auth operation
    page_last,          \* the last event on the Auth page
    sales_orders,       \* orders as update_daily_sales_summary reads them
    daily_sales_summary,\* daily_sales_summary: row -> number of copies
    current_date,       \* CURRENT_DATE
    sales_last          \* the last statement of the sales summary component

dbVars == <<customer_profiles, orders, order_seq, last, credit_count>>

txVars == <<tx>>

calcVars == <<loyalty_programs, calc>>

roleVars == <<restaurants, staff_roles, roles_last>>

mailVars == <<env, request, response, send_called, serving>>

authVars == <<user_profiles, auth_users, sessions, auth>>

raceVars == <<signups>>

pageVars == <<page, inflight, page_last>>

salesVars == <<sales_orders, daily_sales_summary, current_date, sales_last>>

uiVars == <<raceVars, pageVars, salesVars>>

vars == <<dbVars, txVars, calcVars, roleVars, mailVars, authVars, uiVars>>

\* what the statements of one component leave alone
notDb == <<txVars, calcVars, roleVars, mailVars, authVars, uiVars>>

notTx == <<order_seq, last, credit_count, calcVars, roleVars, mailVars, authVars, uiVars>>

notCalc == <<dbVars, txVars, roleVars, mailVars, authVars, uiVars>>

notRoles == <<dbVars, txVars, calcVars, mailVars, authVars, uiVars>>

notMail == <<dbVars, txVars, calcVars, roleVars, authVars, uiVars>>

notAuth == <<dbVars, txVars, calcVars, roleVars, mailVars, uiVars>>

notRace == <<dbVars, txVars, calcVars, roleVars, mailVars, pageVars, salesVars>>

notPage == <<dbVars, txVars, calcVars, roleVars, mailVars, authVars, raceVars, salesVars>>

notSales == <<dbVars, txVars, calcVars, roleVars, mailVars, authVars, raceVars, pageVars>>

----------------------------------------------------------------------------
(* SQL NULL and COALESCE *)

NULL == <<>>

Some(v) == <<v>>

COALESCE(x, d) == IF x = NULL THEN d ELSE x[1]

\* a text is the sequence of its words; phrase occurs in text at or after word i
RECURSIVE ContainsFrom(_, _, _)
ContainsFrom(text, phrase, i) ==
    IF i + Len(phrase) - 1 > Len(text) THEN FALSE
    ELSE IF SubSeq(text, i, i + Len(phrase) - 1) = phrase THEN TRUE
    ELSE ContainsFrom(text, phrase, i + 1)

----------------------------------------------------------------------------
(* Tables *)

ProfileIds == {"p1", "p2"}

OrderIds == {1, 2}

\* orders.status: the values the spec's state machine names
OrderStatuses == {"pending", "confirmed", "served"}

\* (total_amount, loyalty_points_earned, loyalty_points_used) an order may carry
Snapshots ==
    { [total_amount |-> 1000, loyalty_points_earned |-> NULL,    loyalty_points_used |-> NULL],
      [total_amount |-> 3050, loyalty_points_earned |-> Some(7), loyalty_points_used |-> Some(3)] }

ProfileRefs == {NULL} \cup {Some(p) : p \in ProfileIds}

OrderRow(st, snap, ref) ==
    [status                |-> st,
     total_amount          |-> snap.total_amount,
     loyalty_points_earned |-> snap.loyalty_points_earned,
     loyalty_points_used   |-> snap.loyalty_points_used,
     customer_profile_id   |-> ref]

OrderRows ==
    {OrderRow(st, snap, ref) : st \in OrderStatuses, snap \in Snapshots, ref \in ProfileRefs}

\* customer_profiles column defaults
NewProfile == [total_visits |-> 0, total_spent |-> 0, loyalty_points |-> 0]

\* cap on the number of credits applied over a run
MaxVisits == 2

----------------------------------------------------------------------------
(* update_customer_profile_after_order: AFTER UPDATE ON orders FOR EACH ROW *)

\* the IF condition without its check of OLD.status
ServedTransition_NoOldCheck(old_row, new_row) == new_row.status = "served"

\* the trigger's IF condition
ServedTransition(old_row, new_row) == new_row.status = "served" /\ old_row.status # "served"

\* the UPDATE with its WHERE clause lost: every profile row is credited
CreditProfile_NoWhere(profiles, new_row) ==
    [p \in DOMAIN profiles |->
        [total_visits   |-> profiles[p].total_visits + 1,
         total_spent    |-> profiles[p].total_spent + new_row.total_amount,
         loyalty_points |-> profiles[p].loyalty_points
                              + COALESCE(new_row.loyalty_points_earned, 0)
                              - COALESCE(new_row.loyalty_points_used, 0)]]

\* the UPDATE computing the points earned from the loyalty program in force
\* (the rate of an active program, 1.00 without one) instead of reading them
\* from the order
CreditProfile_Recomputed(profiles, new_row) ==
    LET active == {i \in DOMAIN loyalty_programs : loyalty_programs[i].is_active = Some(TRUE)}
        rate   == IF active = {} THEN 100
                  ELSE COALESCE(loyalty_programs[CHOOSE i \in active : TRUE].points_per_dollar, 100)
    IN [p \in DOMAIN profiles |->
          IF Some(p) = new_row.customer_profile_id
          THEN [total_visits   |-> profiles[p].total_visits + 1,
                total_spent    |-> profiles[p].total_spent + new_row.total_amount,
                loyalty_points |-> profiles[p].loyalty_points
                                     + ((new_row.total_amount * rate) \div 10000)
                                     - COALESCE(new_row.loyalty_points_used, 0)]
          ELSE profiles[p]]

\* UPDATE customer_profiles SET ... WHERE id = NEW.customer_profile_id
CreditProfile(profiles, new_row) ==
    [p \in DOMAIN profiles |->
        IF Some(p) = new_row.customer_profile_id
        THEN [total_visits   |-> profiles[p].total_visits + 1,
              total_spent    |-> profiles[p].total_spent + new_row.total_amount,
              loyalty_points |-> profiles[p].loyalty_points
                                   + COALESCE(new_row.loyalty_points_earned, 0)
                                   - COALESCE(new_row.loyalty_points_used, 0)]
        ELSE profiles[p]]

\* the function without its IF: every update of an order credits
update_customer_profile_after_order_NoIf(profiles, old_row, new_row) ==
    CreditProfile(profiles, new_row)

update_customer_profile_after_order(profiles, old_row, new_row) ==
    IF ServedTransition(old_row, new_row) THEN CreditProfile(profiles, new_row) ELSE profiles

----------------------------------------------------------------------------
(* The components at rest *)

TxnIds == {1, 2}

IdleTxn ==
    [pc |-> "idle", iso |-> "read committed", snapshot |-> <<>>,
     order_write |-> NULL, profile_write |-> NULL, overlapped |-> FALSE]

TxIdle == tx = [t \in TxnIds |-> IdleTxn]

RestaurantIds == {"r1", "r2"}

NoCall ==
    [called |-> FALSE, caller |-> [role |-> "none", uid |-> <<>>],
     order_total |-> 0, restaurant_uuid |-> "none", result |-> 0]

CalcIdle == loyalty_programs = <<>> /\ calc = NoCall

\* the names create_default_staff_roles inserts
DefaultRoleNames == {"Manager", "Waiter", "Chef", "Cashier"}

\* and a role a restaurant owner adds
RoleNames == DefaultRoleNames \cup {"Host"}

NoRoles == [k \in RestaurantIds \X RoleNames |-> 0]

RolesStatement(op, r, ok) == [op |-> op, restaurant |-> r, ok |-> ok]

RolesIdle ==
    /\ restaurants = {}
    /\ staff_roles = NoRoles
    /\ roles_last = RolesStatement("none", "none", TRUE)

Secrets == {"RESEND_API_KEY", "SEND_EMAIL_HOOK_SECRET"}

\* Deno.env.get(name): undefined, the empty string, or a value
Settings == {"unset", "empty", "set"}

NoRequest ==
    [handler |-> "none", method |-> "none", body_readable |-> TRUE, parseable |-> TRUE,
     imports_ok |-> TRUE, signature_ok |-> TRUE, shape_ok |-> TRUE, send |-> "ok"]

NoResponse == [status |-> 0, success |-> NULL, message |-> NULL]

\* the handler between requests
NotServing == [pc |-> "idle", secrets |-> [k \in Secrets |-> "unset"]]

MailIdle ==
    /\ env = [k \in Secrets |-> "unset"]
    /\ request = NoRequest
    /\ response = NoResponse
    /\ send_called = FALSE
    /\ serving = NotServing

\* auth user ids
UserIds == {"u1", "u2", "u3"}

\* a text is the sequence of its tokens; in an address "@" is a token of its own
AliceEmail == <<"alice", "@", "x.io">>

BobEmail == <<"bob", "@", "x.io">>

CarolEmail == <<"carol", "@", "x.io">>

AuthUser(email, password, full_name, username) ==
    [email |-> email, password |-> password,
     user_metadata |-> [full_name |-> full_name, username |-> username]]

\* alice signed up through signUp; bob was created without user_metadata
RegisteredUsers ==
    ("u1" :> AuthUser(AliceEmail, "secret", Some(<<"Alice">>), Some(<<"alice">>)))
    @@ ("u2" :> AuthUser(BobEmail, "secret", NULL, NULL))

ProfileRow(email, full_name, username) ==
    [email |-> email, full_name |-> full_name, username |-> username, has_restaurant |-> FALSE]

NoAuthCall ==
    [op |-> "none", identifier |-> <<>>, password |-> "none", username |-> <<>>,
     existed |-> FALSE, backend_error |-> NULL, calls |-> <<>>, user |-> NULL, result |-> [error |-> NULL]]

\* the browser sessions that can have a call of authService in progress
Callers == {"c1", "c2"}

\* a session with no call in progress; of a call in progress, pc is the request
\* it awaits, calls the requests it has made, existed whether its username
\* query found a row, email and user what the backend has answered so far
NoSession ==
    [pc |-> "idle", op |-> "none", identifier |-> <<>>, password |-> "none",
     fullName |-> <<>>, username |-> <<>>, existed |-> FALSE, email |-> <<>>,
     user |-> NULL, calls |-> <<>>]

AuthIdle ==
    /\ user_profiles = <<>>
    /\ auth_users = RegisteredUsers
    /\ sessions = [c \in Callers |-> NoSession]
    /\ auth = NoAuthCall

NoSignUp ==
    [pc |-> "idle", email |-> <<>>, username |-> <<>>, concurrent |-> FALSE,
     reached |-> FALSE, result |-> [error |-> NULL]]

RaceIdle == signups = [c \in Callers |-> NoSignUp]

\* the Auth page as first rendered; the text of an input is the sequence of
\* its characters, user is whether the auth context has a user, route is
\* where the router shows the page, and edited holds the inputs with a
\* minLength whose element took its value from an edit of the user
InitialPage ==
    [isLogin |-> TRUE, isForgotPassword |-> FALSE, loading |-> FALSE,
     showEmailSent |-> FALSE, showResetSent |-> FALSE,
     email |-> <<>>, password |-> <<>>, showPassword |-> FALSE,
     fullName |-> <<>>, username |-> <<>>, identifier |-> <<>>,
     loginType |-> "email", user |-> FALSE, route |-> "/auth", edited |-> {}]

PageIdle ==
    /\ page = InitialPage /\ inflight = EmptyBag
    /\ page_last = [event |-> "none", outcome |-> "none"]

\* the statements of the sales summary component: repeat says that a run
\* followed a run with no change of orders in between, before is the table the
\* run found
SalesStatement(op, repeat, before) == [op |-> op, repeat |-> repeat, before |-> before]

SalesIdle ==
    /\ sales_orders = <<>>
    /\ daily_sales_summary = <<>>
    /\ current_date = 1
    /\ sales_last = SalesStatement("none", FALSE, <<>>)

UiIdle == RaceIdle /\ PageIdle /\ SalesIdle

----------------------------------------------------------------------------
(* Statements against orders and customer_profiles *)

RECURSIVE SumCredits(_, _)
SumCredits(count, S) ==
    IF S = {} THEN 0
    ELSE LET o == CHOOSE x \in S : TRUE
         IN count[o] + SumCredits(count, S \ {o})

\* the credits the trigger has applied so far
CreditsApplied(count) == SumCredits(count, DOMAIN count)

\* orders.customer_profile_id REFERENCES customer_profiles(id)
ForeignKeyHolds(row, profiles) ==
    IF row.customer_profile_id = NULL THEN TRUE
    ELSE row.customer_profile_id[1] \in DOMAIN profiles

Statement(op, o, tr) == [op |-> op, order |-> o, served_transition |-> tr]

\* INSERT INTO orders: the trigger is AFTER UPDATE only, so nothing else happens
InsertOrder(row) ==
    LET o == order_seq + 1 IN
    /\ o \in OrderIds
    /\ ForeignKeyHolds(row, customer_profiles)
    /\ orders' = (o :> row) @@ orders
    /\ order_seq' = o
    /\ last' = Statement("insert", o, FALSE)
    /\ UNCHANGED <<customer_profiles, credit_count, notDb>>

\* UPDATE orders SET ... WHERE id = o, then the row trigger
UpdateOrder(o, new_row) ==
    /\ o \in DOMAIN orders
    /\ ForeignKeyHolds(new_row, customer_profiles)
    /\ LET old_row == orders[o]
           after == update_customer_profile_after_order(customer_profiles, old_row, new_row)
           credits == [credit_count EXCEPT ![o] =
                          IF after # customer_profiles THEN @ + 1 ELSE @]
       IN /\ CreditsApplied(credits) <= MaxVisits
          /\ orders' = [orders EXCEPT ![o] = new_row]
          /\ customer_profiles' = after
          /\ credit_count' = credits
          /\ last' = Statement("update", o, ServedTransition(old_row, new_row))
    /\ UNCHANGED <<order_seq, notDb>>

\* DELETE FROM orders WHERE id = o
DeleteOrder(o) ==
    /\ o \in DOMAIN orders
    /\ orders' = [x \in DOMAIN orders \ {o} |-> orders[x]]
    /\ last' = Statement("delete", o, FALSE)
    /\ UNCHANGED <<customer_profiles, order_seq, credit_count, notDb>>

\* DELETE FROM customer_profiles WHERE id = p. orders.customer_profile_id is
\* ON DELETE SET NULL; that update leaves status alone and NEW.customer_profile_id
\* is NULL, so the row trigger changes no profile.
DeleteProfile(p) ==
    /\ p \in DOMAIN customer_profiles
    /\ customer_profiles' = [x \in DOMAIN customer_profiles \ {p} |-> customer_profiles[x]]
    /\ orders' = [o \in DOMAIN orders |->
                    IF orders[o].customer_profile_id = Some(p)
                    THEN [orders[o] EXCEPT !.customer_profile_id = NULL]
                    ELSE orders[o]]
    /\ last' = Statement("delete_profile", 0, FALSE)
    /\ UNCHANGED <<order_seq, credit_count, notDb>>

DbInit ==
    /\ customer_profiles = [p \in ProfileIds |-> NewProfile]
    /\ orders = <<>>
    /\ order_seq = 0
    /\ last = Statement("none", 0, FALSE)
    /\ credit_count = [o \in OrderIds |-> 0]

Init == DbInit /\ TxIdle /\ CalcIdle /\ RolesIdle /\ MailIdle /\ AuthIdle /\ UiIdle

Next ==
    \/ \E row \in OrderRows : InsertOrder(row)
    \/ \E o \in OrderIds, row \in OrderRows : UpdateOrder(o, row)
    \/ \E o \in OrderIds : DeleteOrder(o)
    \/ \E p \in ProfileIds : DeleteProfile(p)

Spec == Init /\ [][Next]_vars

----------------------------------------------------------------------------
(* customer_loyalty_view over profiles that come near a tier boundary *)

\* CASE WHEN cp.total_visits = ... : the tiers taken as exact visit counts
loyalty_tier_Exact(total_visits) ==
    IF total_visits = 50 THEN "VIP"
    ELSE IF total_visits = 20 THEN "Gold"
    ELSE IF total_visits = 10 THEN "Silver"
    ELSE "Bronze"

\* the loyalty_tier column of customer_loyalty_view
loyalty_tier(total_visits) ==
    IF total_visits >= 50 THEN "VIP"
    ELSE IF total_visits >= 20 THEN "Gold"
    ELSE IF total_visits >= 10 THEN "Silver"
    ELSE "Bronze"

\* visits a customer can have behind them: none, or one short of a tier
EarlierVisits == {0, 9, 19, 49}

\* a profile after that many served orders of 10.00 without points
ProfileAfter(visits) ==
    [total_visits |-> visits, total_spent |-> visits * 1000, loyalty_points |-> 0]

TierInit ==
    /\ customer_profiles \in [ProfileIds -> {ProfileAfter(v) : v \in EarlierVisits}]
    /\ orders = <<>>
    /\ order_seq = 0
    /\ last = Statement("none", 0, FALSE)
    /\ credit_count = [o \in OrderIds |-> 0]
    /\ TxIdle /\ CalcIdle /\ RolesIdle /\ MailIdle /\ AuthIdle /\ UiIdle

\* orders are placed, their status is updated, and they are deleted; no
\* statement other than the trigger's writes customer_profiles
TierNext ==
    \/ \E row \in OrderRows : row.total_amount = 1000 /\ InsertOrder(row)
    \/ \E o \in DOMAIN orders, st \in OrderStatuses :
          UpdateOrder(o, [orders[o] EXCEPT !.status = st])
    \/ \E o \in OrderIds : DeleteOrder(o)

SpecTier == TierInit /\ [][TierNext]_vars

----------------------------------------------------------------------------
(* Row level security on customer_profiles, and updates of a profile issued by *)
(* a caller of the API                                                         *)

\* the roles requests run as; TO public names them all
DbRoles == {"anon", "authenticated"}

\* CREATE POLICY "Customers can view and update their own profile"
\* ON customer_profiles FOR ALL TO public USING (true): the expression is checked
\* against the existing row, and as WITH CHECK against the new one
customer_profiles_policy(role, command, row) == role \in DbRoles /\ TRUE

\* the counters a caller writes over those of row: each is kept or overwritten
\* (total_visits is only raised, to the cap on credits, so that runs stay finite)
ProfileEdits(row) ==
    {[total_visits |-> v, total_spent |-> s, loyalty_points |-> pts] :
        v \in {row.total_visits, MaxVisits}, s \in {row.total_spent, 0},
        pts \in {row.loyalty_points, 100}}

\* UPDATE customer_profiles SET total_visits = .., total_spent = ..,
\* loyalty_points = .. WHERE id = p
UpdateCustomerProfile(role, p, row) ==
    /\ p \in DOMAIN customer_profiles
    /\ customer_profiles_policy(role, "UPDATE", customer_profiles[p])
    /\ customer_profiles_policy(role, "UPDATE", row)
    /\ customer_profiles[p] # row
    /\ customer_profiles' = [customer_profiles EXCEPT ![p] = row]
    /\ last' = Statement("update_profile", 0, FALSE)
    /\ UNCHANGED <<orders, order_seq, credit_count, notDb>>

RlsInit == DbInit /\ TxIdle /\ CalcIdle /\ RolesIdle /\ MailIdle /\ AuthIdle /\ UiIdle

\* orders of the one customer p1, and updates of any profile
RlsNext ==
    \/ \E row \in {r \in OrderRows : r.customer_profile_id = Some("p1")} : InsertOrder(row)
    \/ \E o \in OrderIds, row \in {r \in OrderRows : r.customer_profile_id = Some("p1")} :
          UpdateOrder(o, row)
    \/ \E role \in DbRoles, p \in DOMAIN customer_profiles :
          \E row \in ProfileEdits(customer_profiles[p]) : UpdateCustomerProfile(role, p, row)

SpecRls == RlsInit /\ [][RlsNext]_vars

----------------------------------------------------------------------------
(* Two transactions, each moving its own order into 'served'.  Transaction t  *)
(* is BEGIN; UPDATE orders .. WHERE id = t; COMMIT.  The trigger's UPDATE of  *)
(* customer_profiles takes the row lock of the profile and holds it until the *)
(* transaction ends.  A repeatable read transaction takes its snapshot with   *)
(* its first statement, the UPDATE of orders, not with BEGIN.                 *)

IsolationLevels == {"read committed", "repeatable read"}

InProgress(t) == tx[t].pc \in {"begun", "updated", "triggered"}

\* the row lock taken by UPDATE customer_profiles ... WHERE id = p
HoldsProfileLock(t, p) ==
    /\ tx[t].pc = "triggered"
    /\ tx[t].profile_write # NULL
    /\ tx[t].profile_write[1] = p

\* the UPDATE running without the row lock
ProfileLockFree_NoLock(t, p) == TRUE

\* the UPDATE waits while another transaction holds the row lock
ProfileLockFree(t, p) == \A u \in TxnIds \ {t} : ~HoldsProfileLock(u, p)

\* BEGIN ISOLATION LEVEL iso
TxBegin(t, iso) ==
    /\ tx[t].pc = "idle"
    /\ tx' = [tx EXCEPT ![t] = [@ EXCEPT !.pc = "begun", !.iso = iso,
                                          !.overlapped = \E u \in TxnIds \ {t} : InProgress(u)]]
    /\ UNCHANGED <<customer_profiles, orders, notTx>>

\* UPDATE orders SET status = 'served' WHERE id = t, the first statement of the
\* transaction: under repeatable read it takes the snapshot the whole
\* transaction keeps
TxUpdateOrder(t) ==
    /\ tx[t].pc = "begun"
    /\ tx' = [tx EXCEPT ![t] = [@ EXCEPT !.pc = "updated",
                                          !.snapshot = IF tx[t].iso = "repeatable read"
                                                       THEN customer_profiles ELSE @,
                                          !.order_write = Some([orders[t] EXCEPT !.status = "served"])]]
    /\ UNCHANGED <<customer_profiles, orders, notTx>>

\* the row trigger of that update, once the profile's row lock is free: it works
\* on the latest committed row under read committed, and fails with a
\* serialization error under repeatable read when the row changed since the
\* transaction's snapshot
TxTrigger(t) ==
    /\ tx[t].pc = "updated"
    /\ LET old_row == orders[t]
           new_row == tx[t].order_write[1]
           ref     == new_row.customer_profile_id
           after   == update_customer_profile_after_order(customer_profiles, old_row, new_row)
       IN IF after = customer_profiles
          THEN tx' = [tx EXCEPT ![t] = [@ EXCEPT !.pc = "triggered"]]
          ELSE /\ ProfileLockFree(t, ref[1])
               /\ IF tx[t].iso = "repeatable read" /\ customer_profiles[ref[1]] # tx[t].snapshot[ref[1]]
                  THEN tx' = [tx EXCEPT ![t] = [@ EXCEPT !.pc = "aborted"]]
                  ELSE tx' = [tx EXCEPT ![t] = [@ EXCEPT !.pc = "triggered",
                                                         !.profile_write = <<ref[1], after[ref[1]]>>]]
    /\ UNCHANGED <<customer_profiles, orders, notTx>>

TxCommit(t) ==
    /\ tx[t].pc = "triggered"
    /\ orders' = [orders EXCEPT ![t] = tx[t].order_write[1]]
    /\ customer_profiles' =
          IF tx[t].profile_write = NULL THEN customer_profiles
          ELSE [customer_profiles EXCEPT ![tx[t].profile_write[1]] = tx[t].profile_write[2]]
    /\ tx' = [tx EXCEPT ![t] = [@ EXCEPT !.pc = "committed"]]
    /\ UNCHANGED notTx

\* two orders of profile p1, neither served yet
TxInit ==
    /\ customer_profiles = [p \in ProfileIds |-> NewProfile]
    /\ orders \in [TxnIds -> {row \in OrderRows :
                                 row.status # "served" /\ row.customer_profile_id = Some("p1")}]
    /\ order_seq = 2
    /\ last = Statement("none", 0, FALSE)
    /\ credit_count = [o \in OrderIds |-> 0]
    /\ TxIdle /\ CalcIdle /\ RolesIdle /\ MailIdle /\ AuthIdle /\ UiIdle

TxNext ==
    \/ \E t \in TxnIds, iso \in IsolationLevels : TxBegin(t, iso)
    \/ \E t \in TxnIds : TxUpdateOrder(t)
    \/ \E t \in TxnIds : TxTrigger(t)
    \/ \E t \in TxnIds : TxCommit(t)

SpecTx == TxInit /\ [][TxNext]_vars

----------------------------------------------------------------------------
(* staff_roles and the trigger on_restaurant_created_add_roles *)

\* the INSERT with the UNIQUE constraint missing
insert_staff_role_NoUnique(roles, r, name) ==
    [ok |-> TRUE, roles |-> [roles EXCEPT ![<<r, name>>] = @ + 1]]

\* INSERT INTO staff_roles under UNIQUE(restaurant_id, name)
insert_staff_role(roles, r, name) ==
    IF roles[<<r, name>>] > 0
    THEN [ok |-> FALSE, roles |-> roles]
    ELSE [ok |-> TRUE, roles |-> [roles EXCEPT ![<<r, name>>] = @ + 1]]

\* the function with its last INSERT missing
create_default_staff_roles_NoCashier(roles, restaurant_uuid) ==
    LET m == insert_staff_role(roles, restaurant_uuid, "Manager")
        w == IF m.ok THEN insert_staff_role(m.roles, restaurant_uuid, "Waiter") ELSE m
    IN IF w.ok THEN insert_staff_role(w.roles, restaurant_uuid, "Chef") ELSE w

\* four INSERTs in a row; the first that fails aborts the statement
create_default_staff_roles(roles, restaurant_uuid) ==
    LET m == insert_staff_role(roles, restaurant_uuid, "Manager")
        w == IF m.ok THEN insert_staff_role(m.roles, restaurant_uuid, "Waiter") ELSE m
        c == IF w.ok THEN insert_staff_role(w.roles, restaurant_uuid, "Chef") ELSE w
    IN IF c.ok THEN insert_staff_role(c.roles, restaurant_uuid, "Cashier") ELSE c

\* AFTER INSERT ON restaurants FOR EACH ROW
add_default_staff_roles(roles, new_id) == create_default_staff_roles(roles, new_id)

\* INSERT INTO restaurants, with its row trigger; an error rolls the insert back
InsertRestaurant(r) ==
    /\ r \notin restaurants
    /\ LET done == add_default_staff_roles(staff_roles, r)
       IN /\ restaurants' = IF done.ok THEN restaurants \cup {r} ELSE restaurants
          /\ staff_roles' = IF done.ok THEN done.roles ELSE staff_roles
          /\ roles_last' = RolesStatement("insert_restaurant", r, done.ok)
    /\ UNCHANGED notRoles

\* DELETE FROM restaurants: staff_roles.restaurant_id is ON DELETE CASCADE
DeleteRestaurant(r) ==
    /\ r \in restaurants
    /\ restaurants' = restaurants \ {r}
    /\ staff_roles' = [k \in DOMAIN staff_roles |-> IF k[1] = r THEN 0 ELSE staff_roles[k]]
    /\ roles_last' = RolesStatement("delete_restaurant", r, TRUE)
    /\ UNCHANGED notRoles

\* SELECT create_default_staff_roles(r), invoked again for a restaurant there is
\* (staff_roles.restaurant_id REFERENCES restaurants); an error undoes the
\* inserts the call has made
CallCreateDefaultStaffRoles(r) ==
    /\ r \in restaurants
    /\ LET done == create_default_staff_roles(staff_roles, r)
       IN /\ staff_roles' = IF done.ok THEN done.roles ELSE staff_roles
          /\ roles_last' = RolesStatement("create_default_staff_roles", r, done.ok)
    /\ UNCHANGED <<restaurants, notRoles>>

\* an owner's INSERT INTO staff_roles
InsertStaffRole(r, name) ==
    /\ r \in restaurants
    /\ LET done == insert_staff_role(staff_roles, r, name)
       IN /\ staff_roles' = done.roles
          /\ roles_last' = RolesStatement("insert_role", r, done.ok)
    /\ UNCHANGED <<restaurants, notRoles>>

\* an owner's DELETE FROM staff_roles WHERE restaurant_id = r AND name = name
DeleteStaffRole(r, name) ==
    /\ r \in restaurants
    /\ staff_roles[<<r, name>>] > 0
    /\ staff_roles' = [staff_roles EXCEPT ![<<r, name>>] = 0]
    /\ roles_last' = RolesStatement("delete_role", r, TRUE)
    /\ UNCHANGED <<restaurants, notRoles>>

RolesInit == DbInit /\ TxIdle /\ CalcIdle /\ RolesIdle /\ MailIdle /\ AuthIdle /\ UiIdle

RolesNext ==
    \/ \E r \in RestaurantIds : InsertRestaurant(r)
    \/ \E r \in RestaurantIds : DeleteRestaurant(r)
    \/ \E r \in RestaurantIds : CallCreateDefaultStaffRoles(r)
    \/ \E r \in RestaurantIds, name \in RoleNames : InsertStaffRole(r, name)
    \/ \E r \in RestaurantIds, name \in RoleNames : DeleteStaffRole(r, name)

SpecRoles == RolesInit /\ [][RolesNext]_vars

----------------------------------------------------------------------------
(* loyalty_programs and calculate_loyalty_points *)

ProgramIds == {1, 2}

\* points_per_dollar numeric(5,2) DEFAULT 1.00, no NOT NULL and no CHECK
Rates == {NULL, Some(100), Some(150), Some(200), Some(-100)}

\* is_active boolean DEFAULT true, no NOT NULL
Flags == {NULL, Some(TRUE), Some(FALSE)}

ProgramRows ==
    [restaurant_id : RestaurantIds, points_per_dollar : Rates, is_active : Flags]

\* order totals handed to the function: 0.00, 49.90, 50.00
OrderTotals == {0, 4990, 5000}

\* who runs a statement: the database role and auth.uid(), which is NULL
\* without a signed-in user.  postgres stands for the roles row level security
\* does not apply to (a superuser, the owner of the table)
DbCallers ==
    [role : {"anon", "postgres"}, uid : {NULL}]
        \cup [role : {"authenticated"}, uid : {Some(u) : u \in UserIds}]

\* restaurants.owner_id
owner_id == [r \in RestaurantIds |-> IF r = "r1" THEN "u1" ELSE "u2"]

\* CREATE POLICY "Restaurant owners can manage loyalty programs"
\* ON loyalty_programs FOR ALL TO authenticated USING (EXISTS (SELECT 1 FROM
\* restaurants WHERE restaurants.id = loyalty_programs.restaurant_id AND
\* restaurants.owner_id = auth.uid()))
loyalty_programs_policy(caller, row) ==
    caller.role = "authenticated" /\ caller.uid = Some(owner_id[row.restaurant_id])

\* ALTER TABLE loyalty_programs ENABLE ROW LEVEL SECURITY: the rows a statement
\* of the caller reads.  calculate_loyalty_points is not SECURITY DEFINER, so
\* its SELECT runs as the caller
VisiblePrograms(caller, programs) ==
    LET seen == {i \in DOMAIN programs :
                    caller.role = "postgres" \/ loyalty_programs_policy(caller, programs[i])}
    IN [i \in seen |-> programs[i]]

\* the WHERE clause without AND lp.is_active = true
MatchingPrograms_AnyFlag(programs, restaurant_uuid) ==
    {i \in DOMAIN programs : programs[i].restaurant_id = restaurant_uuid}

\* WHERE lp.restaurant_id = restaurant_uuid AND lp.is_active = true
MatchingPrograms(programs, restaurant_uuid) ==
    {i \in DOMAIN programs :
        programs[i].restaurant_id = restaurant_uuid /\ programs[i].is_active = Some(TRUE)}

\* SELECT lp.points_per_dollar INTO points_per_dollar ... LIMIT 1: the value of
\* the row the scan returns first, NULL when no row matches
SelectedRates(programs, restaurant_uuid) ==
    IF MatchingPrograms(programs, restaurant_uuid) = {} THEN {NULL}
    ELSE {programs[i].points_per_dollar : i \in MatchingPrograms(programs, restaurant_uuid)}

\* IF points_per_dollar IS NULL THEN 1.0; RETURN FLOOR(order_total * points_per_dollar)
calculate_loyalty_points(order_total, selected) ==
    LET points_per_dollar == IF selected = NULL THEN 100 ELSE selected[1]
    IN (order_total * points_per_dollar) \div 10000

\* INSERT INTO loyalty_programs, by the restaurant's owner or a role exempt
\* from row level security
InsertProgram(row) ==
    LET i == Cardinality(DOMAIN loyalty_programs) + 1 IN
    /\ i \in ProgramIds
    /\ loyalty_programs' = (i :> row) @@ loyalty_programs
    /\ calc' = NoCall
    /\ UNCHANGED notCalc

\* UPDATE loyalty_programs, by such a role
UpdateProgram(i, row) ==
    /\ i \in DOMAIN loyalty_programs
    /\ loyalty_programs[i] # row
    /\ loyalty_programs' = [loyalty_programs EXCEPT ![i] = row]
    /\ calc' = NoCall
    /\ UNCHANGED notCalc

\* SELECT calculate_loyalty_points(order_total, restaurant_uuid), run by a caller
Calculate(caller, order_total, restaurant_uuid) ==
    /\ \E selected \in SelectedRates(VisiblePrograms(caller, loyalty_programs),
                                     restaurant_uuid) :
          calc' = [called |-> TRUE, caller |-> caller, order_total |-> order_total,
                   restaurant_uuid |-> restaurant_uuid,
                   result |-> calculate_loyalty_points(order_total, selected)]
    /\ UNCHANGED <<loyalty_programs, notCalc>>

CalcInit == DbInit /\ TxIdle /\ CalcIdle /\ RolesIdle /\ MailIdle /\ AuthIdle /\ UiIdle

CalcNext ==
    \/ \E row \in ProgramRows : InsertProgram(row)
    \/ \E i \in ProgramIds, row \in ProgramRows : UpdateProgram(i, row)
    \/ \E caller \in DbCallers, t \in OrderTotals, r \in RestaurantIds : Calculate(caller, t, r)

SpecCalc == CalcInit /\ [][CalcNext]_vars

----------------------------------------------------------------------------
(* One order from its creation to its serving, while the loyalty programs of   *)
(* its restaurant are created and changed                                      *)

Unserved == {o \in DOMAIN orders : orders[o].status # "served"}

SnapshotInit == DbInit /\ TxIdle /\ CalcIdle /\ RolesIdle /\ MailIdle /\ AuthIdle /\ UiIdle

\* the order is created before any program changes; programs change only while
\* the order is waiting to be served; the order's status is all that is updated
SnapshotNext ==
    \/ \E row \in OrderRows : orders = <<>> /\ InsertOrder(row)
    \/ \E o \in DOMAIN orders, st \in OrderStatuses :
          UpdateOrder(o, [orders[o] EXCEPT !.status = st])
    \/ \E row \in ProgramRows : Unserved # {} /\ row.restaurant_id = "r1" /\ InsertProgram(row)
    \/ \E i \in ProgramIds, row \in ProgramRows :
          Unserved # {} /\ row.restaurant_id = "r1" /\ UpdateProgram(i, row)

SpecSnapshot == SnapshotInit /\ [][SnapshotNext]_vars

----------------------------------------------------------------------------
(* The email handlers send-verification-email and send-reset-email.  A request *)
(* is described by what happens to it at each point that can fail; a message   *)
(* is the sequence of its words.                                               *)

Handlers == {"send-verification-email", "send-reset-email"}

Requests ==
    [handler : Handlers, method : {"OPTIONS", "POST"},
     body_readable : BOOLEAN,     \* req.text() resolves
     parseable : BOOLEAN,         \* JSON.parse(payload) returns
     imports_ok : BOOLEAN,        \* the imports and the two constructors succeed
     signature_ok : BOOLEAN,      \* wh.verify(payload, headers) returns
     shape_ok : BOOLEAN,          \* the verified data has user and email_data
     send : {"ok", "error", "throws"}]   \* what resend.emails.send does

\* new Response(JSON.stringify({success: true, message}), {status: 200})
Json200(message) == [status |-> 200, success |-> Some(TRUE), message |-> Some(message)]

SkippedDueTo(handler, cause) ==
    IF handler = "send-verification-email"
    THEN <<"Signup", "completed", "-", "email", "verification", "skipped", "due", "to">> \o cause
    ELSE <<"Password", "reset", "completed", "-", "email", "sending", "skipped", "due", "to">> \o cause

\* new Response(null, {headers: corsHeaders})
preflight_response == [status |-> 200, success |-> NULL, message |-> NULL]

parse_error_response(handler) ==
    Json200(SkippedDueTo(handler, <<"payload", "parsing", "issue">>))

not_configured_response(handler) ==
    Json200(IF handler = "send-verification-email"
            THEN <<"Email", "service", "not", "configured", "-", "signup", "allowed",
                   "without", "email", "verification">>
            ELSE <<"Email", "service", "not", "configured", "-", "password", "reset",
                   "allowed", "without", "email">>)

send_error_response(handler) ==
    Json200(SkippedDueTo(handler, <<"email", "sending", "issue">>))

import_error_response(handler) ==
    Json200(SkippedDueTo(handler, <<"dependency", "issue">>))

outer_error_response(handler) ==
    Json200(SkippedDueTo(handler, <<"configuration", "issue">>))

\* new Response(JSON.stringify({success: true}), {status: 200})
delivered_response == [status |-> 200, success |-> Some(TRUE), message |-> NULL]

\* the catch block rejecting the webhook
verify_error_response_Reject(handler) ==
    [status |-> 401, success |-> Some(FALSE),
     message |-> Some(<<"webhook", "verification", "issue">>)]

\* the catch block missing: the error reaches the catch around the imports
verify_error_response_Uncaught(handler) == import_error_response(handler)

verify_error_response(handler) ==
    Json200(SkippedDueTo(handler, <<"webhook", "verification", "issue">>))

\* the check of hookSecret missing
NotConfigured_OnlyApiKey(e) == e["RESEND_API_KEY"] # "set"

\* !resendApiKey || !hookSecret
NotConfigured(e) == \E k \in Secrets : e[k] # "set"

Result(resp, sent) == [response |-> resp, send_called |-> sent]

handler(e, req) ==
    IF req.method = "OPTIONS" THEN Result(preflight_response, FALSE)
    ELSE IF ~req.body_readable THEN Result(outer_error_response(req.handler), FALSE)
    ELSE IF ~req.parseable THEN Result(parse_error_response(req.handler), FALSE)
    ELSE IF NotConfigured(e) THEN Result(not_configured_response(req.handler), FALSE)
    ELSE IF ~req.imports_ok THEN Result(import_error_response(req.handler), FALSE)
    ELSE IF ~req.signature_ok THEN Result(verify_error_response(req.handler), FALSE)
    ELSE IF ~req.shape_ok THEN Result(import_error_response(req.handler), FALSE)
    ELSE IF req.send = "throws" THEN Result(import_error_response(req.handler), TRUE)
    ELSE IF req.send = "error" THEN Result(send_error_response(req.handler), TRUE)
    ELSE Result(delivered_response, TRUE)

\* the older handlers' single catch block, rethrowing instead: the runtime
\* answers 500
older_catch_response_Rethrow(name) ==
    [status |-> 500, success |-> NULL, message |-> NULL]

\* the older handlers' single catch block
older_catch_response(name) ==
    Json200(SkippedDueTo(name, <<"configuration", "issue">>))

\* the older version of each handler: a payload that does not parse is only
\* logged, and one try/catch surrounds everything after the preflight;
\* wh.verify parses the payload it has verified
handler_older(e, req) ==
    IF req.method = "OPTIONS" THEN Result(preflight_response, FALSE)
    ELSE IF ~req.body_readable THEN Result(older_catch_response(req.handler), FALSE)
    ELSE IF NotConfigured(e) THEN Result(not_configured_response(req.handler), FALSE)
    ELSE IF ~req.imports_ok THEN Result(older_catch_response(req.handler), FALSE)
    ELSE IF ~req.signature_ok THEN Result(older_catch_response(req.handler), FALSE)
    ELSE IF ~req.parseable THEN Result(older_catch_response(req.handler), FALSE)
    ELSE IF ~req.shape_ok THEN Result(older_catch_response(req.handler), FALSE)
    ELSE IF req.send = "throws" THEN Result(older_catch_response(req.handler), TRUE)
    ELSE IF req.send = "error" THEN Result(older_catch_response(req.handler), TRUE)
    ELSE Result(delivered_response, TRUE)

\* with these secrets the handler gets as far as awaiting its imports
AwaitsImports(e, req) ==
    /\ req.method = "POST" /\ req.body_readable /\ req.parseable
    /\ ~NotConfigured(e)

\* a request arrives: the handler reads the body and the two secrets and
\* either answers or awaits its imports; what it read stays with the request
ServeRequest(req) ==
    /\ serving.pc \in {"idle", "done"}
    /\ request' = req
    /\ send_called' = FALSE
    /\ IF AwaitsImports(env, req)
       THEN /\ response' = NoResponse
            /\ serving' = [pc |-> "imports", secrets |-> env]
       ELSE /\ response' = handler(env, req).response
            /\ serving' = [pc |-> "done", secrets |-> env]
    /\ UNCHANGED <<env, notMail>>

\* the imports settle: the handler verifies the webhook and renders, and
\* either answers or calls resend.emails.send and awaits it
ImportsSettle ==
    /\ serving.pc = "imports"
    /\ LET result == handler(serving.secrets, request)
       IN IF result.send_called
          THEN /\ send_called' = TRUE
               /\ serving' = [serving EXCEPT !.pc = "send"]
               /\ UNCHANGED response
          ELSE /\ response' = result.response
               /\ serving' = [serving EXCEPT !.pc = "done"]
               /\ UNCHANGED send_called
    /\ UNCHANGED <<env, request, notMail>>

\* resend.emails.send settles: the handler answers
SendSettles ==
    /\ serving.pc = "send"
    /\ response' = handler(serving.secrets, request).response
    /\ serving' = [serving EXCEPT !.pc = "done"]
    /\ UNCHANGED <<env, request, send_called, notMail>>

\* a secret is set, emptied or removed in the functions' environment, at any
\* moment; a request in progress keeps the values it read
SetSecret(k, v) ==
    /\ env[k] # v
    /\ env' = [env EXCEPT ![k] = v]
    /\ UNCHANGED <<request, response, send_called, serving, notMail>>

MailInit == DbInit /\ TxIdle /\ CalcIdle /\ RolesIdle /\ MailIdle /\ AuthIdle /\ UiIdle

MailNext ==
    \/ \E req \in Requests : ServeRequest(req)
    \/ ImportsSettle
    \/ SendSettles
    \/ \E k \in Secrets, v \in Settings : SetSecret(k, v)

SpecMail == MailInit /\ [][MailNext]_vars

----------------------------------------------------------------------------
(* authService: signUp, signIn, ensureProfileExists and resetPassword.  Each   *)
(* request to the backend is described by the outcome it has: the backend      *)
(* answers it, returns an error object, or the client throws.                  *)

\* String.prototype.includes
includes(text, phrase) == ContainsFrom(text, phrase, 1)

\* a || b on strings: the empty string and undefined are falsy
OrElse(a, b) == IF a # NULL /\ a # Some(<<>>) THEN a[1] ELSE b

\* text.split(sep)[0]
RECURSIVE split_first(_, _)
split_first(text, sep) ==
    IF text = <<>> THEN <<>>
    ELSE IF Head(text) = sep THEN <<>>
    ELSE <<Head(text)>> \o split_first(Tail(text), sep)

Passwords == {"secret", "guess"}

Emails == {AliceEmail, BobEmail, CarolEmail}

Usernames == {<<"alice">>, <<"bob">>, <<"nobody">>}

\* what a caller types into the sign-in form
Identifiers == Usernames \cup Emails

\* messages of the backend's error objects
InvalidLoginCredentials == <<"Invalid", "login", "credentials">>

UserAlreadyRegistered == <<"User", "already", "registered">>

BackendErrors ==
    { InvalidLoginCredentials,
      <<"Email", "not", "confirmed">>,
      <<"AuthApiError", ":", "Too", "many", "requests">>,
      UserAlreadyRegistered,
      <<"Password", "should", "be", "at", "least", "6", "characters">>,
      <<"For", "security", "purposes", ",", "you", "can", "only", "request", "this",
        "after", "30", "seconds">>,
      <<"Unable", "to", "validate", "email", "address", ":", "Invalid", "email", "format">>,
      <<"Database", "error", "querying", "schema">> }

\* messages of thrown errors; the empty one stands for an error without message
ThrownMessages == {<<"Failed", "to", "fetch">>, <<>>}

\* the messages authService returns
InvalidEmailOrPassword ==
    <<"Invalid", "email", "or", "password.", "Please", "check", "your", "credentials",
      "and", "try", "again.">>

InvalidUsernameOrPassword ==
    <<"Invalid", "username", "or", "password.", "Please", "check", "your", "credentials",
      "and", "try", "again.">>

ConfirmEmailFirst ==
    <<"Please", "check", "your", "email", "and", "click", "the", "confirmation", "link",
      "before", "signing", "in.">>

TooManyAttempts ==
    <<"Too", "many", "login", "attempts.", "Please", "wait", "a", "moment", "before",
      "trying", "again.">>

UsernameLookupFailed ==
    <<"An", "error", "occurred", "while", "looking", "up", "your", "username.", "Please",
      "try", "again.">>

UsernameCheckFailed ==
    <<"Error", "checking", "username", "availability.", "Please", "try", "again.">>

UsernameExists ==
    <<"Username", "already", "exists.", "Please", "choose", "a", "different", "username.">>

AccountExists ==
    <<"An", "account", "with", "this", "email", "already", "exists.", "Please", "try",
      "signing", "in", "instead.">>

PasswordTooShort == <<"Password", "must", "be", "at", "least", "6", "characters", "long.">>

EnterValidEmail == <<"Please", "enter", "a", "valid", "email", "address.">>

ResetRateLimited ==
    <<"For", "security", "purposes,", "you", "can", "only", "request", "a", "password",
      "reset", "every", "60", "seconds.">>

SignupFailed == <<"An", "error", "occurred", "during", "signup">>

SigninFailed == <<"An", "error", "occurred", "during", "signin.", "Please", "try", "again.">>

ResetFailed == <<"An", "error", "occurred", "during", "password", "reset">>

\* signUp starting from a fixed message, as signIn does
signUpErrorMessage_Generic(message) ==
    IF includes(message, <<"User", "already", "registered">>) THEN AccountExists
    ELSE IF includes(message, <<"Password", "should", "be", "at", "least">>) THEN PasswordTooShort
    ELSE IF includes(message, <<"Invalid", "email">>) THEN EnterValidEmail
    ELSE SignupFailed

\* signUp: let errorMessage = error.message, replaced on a recognised substring
signUpErrorMessage(message) ==
    IF includes(message, <<"User", "already", "registered">>) THEN AccountExists
    ELSE IF includes(message, <<"Password", "should", "be", "at", "least">>) THEN PasswordTooShort
    ELSE IF includes(message, <<"Invalid", "email">>) THEN EnterValidEmail
    ELSE message

\* signIn by email: errorMessage starts as the invalid-credentials message
emailLoginErrorMessage(message) ==
    IF includes(message, <<"Email", "not", "confirmed">>) THEN ConfirmEmailFirst
    ELSE IF includes(message, <<"Invalid", "login", "credentials">>) THEN InvalidEmailOrPassword
    ELSE IF includes(message, <<"Too", "many", "requests">>) THEN TooManyAttempts
    ELSE InvalidEmailOrPassword

\* signIn by username
usernameLoginErrorMessage(message) ==
    IF includes(message, <<"Email", "not", "confirmed">>) THEN ConfirmEmailFirst
    ELSE IF includes(message, <<"Too", "many", "requests">>) THEN TooManyAttempts
    ELSE InvalidUsernameOrPassword

\* resetPassword: let errorMessage = error.message, replaced on a recognised substring
resetPasswordErrorMessage(message) ==
    IF includes(message, <<"For", "security", "purposes">>) THEN ResetRateLimited
    ELSE IF includes(message, <<"Unable", "to", "validate", "email", "address">>) THEN EnterValidEmail
    ELSE message

\* catch (error): error.message || fallback
caught(message, fallback) == IF message = <<>> THEN fallback ELSE message

\* the outcome of one request
Outcome(kind, message) == [kind |-> kind, message |-> message]

Answered == Outcome("answer", <<>>)

\* a query on profiles: answered, failed with an error object, or thrown
QueryOutcomes ==
    {Answered, Outcome("error", <<"08006">>)} \cup {Outcome("throws", m) : m \in ThrownMessages}

\* a request to the auth backend
AuthOutcomes ==
    {Answered} \cup {Outcome("error", m) : m \in BackendErrors}
               \cup {Outcome("throws", m) : m \in ThrownMessages}

\* an insert into profiles: done, refused, or thrown
InsertOutcomes ==
    {Answered, Outcome("error", <<"42501">>), Outcome("throws", <<"Failed", "to", "fetch">>)}

\* a request made to the backend
Call(api, column, value) == [api |-> api, column |-> column, value |-> value]

\* the test looking at the first character only
isEmail_StartsWith(identifier) == identifier # <<>> /\ Head(identifier) = "@"

\* identifier.includes('@')
isEmail(identifier) == includes(identifier, <<"@">>)

\* .from('profiles').select(..).eq(column, value).maybeSingle(): the row when one
\* matches, null when none does, and the error PGRST116 when several do
maybeSingle(table, column, value, outcome) ==
    LET rows == {id \in DOMAIN table :
                    IF column = "id" THEN <<id>> = value ELSE table[id][column] = value}
    IN IF outcome.kind = "error" THEN [data |-> NULL, error |-> Some(outcome.message)]
       ELSE IF Cardinality(rows) > 1 THEN [data |-> NULL, error |-> Some(<<"PGRST116">>)]
       ELSE IF rows = {} THEN [data |-> NULL, error |-> NULL]
       ELSE [data |-> Some(table[CHOOSE id \in rows : TRUE]), error |-> NULL]

\* supabase.auth.signInWithPassword({email, password}): the user whose email and
\* password these are, the error 'Invalid login credentials' when there is none,
\* or the error the backend returns instead
signInWithPassword(users, email, password, outcome) ==
    LET matching == {id \in DOMAIN users :
                        users[id].email = email /\ users[id].password = password}
    IN IF outcome.kind = "error" THEN [user |-> NULL, error |-> Some(outcome.message)]
       ELSE IF matching = {} THEN [user |-> NULL, error |-> Some(InvalidLoginCredentials)]
       ELSE [user |-> Some(CHOOSE id \in matching : TRUE), error |-> NULL]

\* the row ensureProfileExists inserts
profileData(user) ==
    ProfileRow(Some(user.email),
               OrElse(user.user_metadata.full_name, split_first(user.email, "@")),
               OrElse(user.user_metadata.username, split_first(user.email, "@")))

\* signIn by username up to its first await: the profiles query by username
\* and what signIn returns on it, error NULL when the call goes on to the
\* auth backend with the email of the row
signIn_lookup(table, identifier, lookup) ==
    LET found == maybeSingle(table, "username", identifier, lookup)
        failed(message) == [error |-> Some(message), email |-> NULL]
    IN IF lookup.kind = "throws" THEN failed(caught(lookup.message, SigninFailed))
       ELSE IF found.error # NULL /\ found.error # Some(<<"PGRST116">>)
       THEN failed(UsernameLookupFailed)
       ELSE IF found.data = NULL THEN failed(InvalidUsernameOrPassword)
       ELSE IF found.data[1].email = NULL THEN failed(InvalidUsernameOrPassword)
       ELSE IF found.data[1].email = Some(<<>>) THEN failed(InvalidUsernameOrPassword)
       ELSE [error |-> NULL, email |-> found.data[1].email]

\* signIn at its await of signInWithPassword: what signIn returns on it, error
\* NULL when the call goes on to ensureProfileExists with the user
signIn_login(users, identifier, email, password, login) ==
    LET signed == signInWithPassword(users, email, password, login)
    IN IF login.kind = "throws"
       THEN [error |-> Some(caught(login.message, SigninFailed)), backend_error |-> NULL,
             user |-> NULL]
       ELSE IF signed.error # NULL
       THEN [error |-> Some(IF isEmail(identifier)
                            THEN emailLoginErrorMessage(signed.error[1])
                            ELSE usernameLoginErrorMessage(signed.error[1])),
             backend_error |-> signed.error, user |-> NULL]
       ELSE [error |-> NULL, backend_error |-> NULL, user |-> signed.user]

\* ensureProfileExists without its try/catch: an exception of the profile
\* query reaches signIn
ensureProfileExists_NoCatch(table, id, fetch) ==
    LET fetched == maybeSingle(table, "id", <<id>>, fetch)
    IN IF fetch.kind = "throws" THEN [insert |-> FALSE, thrown |-> Some(fetch.message)]
       ELSE IF fetched.error # NULL /\ fetched.error # Some(<<"PGRST116">>)
       THEN [insert |-> FALSE, thrown |-> NULL]
       ELSE [insert |-> fetched.data = NULL, thrown |-> NULL]

\* ensureProfileExists at its first await, the profiles query by id: whether
\* it goes on to insert the row, and the exception it lets escape to signIn;
\* every failure is logged and swallowed
ensureProfileExists(table, id, fetch) ==
    LET fetched == maybeSingle(table, "id", <<id>>, fetch)
    IN IF fetch.kind = "throws" THEN [insert |-> FALSE, thrown |-> NULL]
       ELSE IF fetched.error # NULL /\ fetched.error # Some(<<"PGRST116">>)
       THEN [insert |-> FALSE, thrown |-> NULL]
       ELSE [insert |-> fetched.data = NULL, thrown |-> NULL]

\* .from('profiles').insert([row]): the row is added unless the request fails
\* or a row with this id is there already (the id is the key of profiles)
profiles_insert(table, id, row, outcome) ==
    IF outcome.kind = "answer" /\ id \notin DOMAIN table THEN (id :> row) @@ table
    ELSE table

\* supabase.auth.signUp({email, password, options: {data: {full_name, username}}}):
\* a new user, the error 'User already registered' for a known email, or the
\* error the backend returns instead
auth_signUp(users, email, password, fullName, username, outcome) ==
    IF outcome.kind = "error" THEN [users |-> users, error |-> Some(outcome.message)]
    ELSE IF \E id \in DOMAIN users : users[id].email = email
    THEN [users |-> users, error |-> Some(UserAlreadyRegistered)]
    ELSE LET id == CHOOSE x \in UserIds \ DOMAIN users : TRUE
         IN [users |-> (id :> AuthUser(email, password, Some(fullName), Some(username))) @@ users,
             error |-> NULL]

\* if (existingUser): the lookup returned a row
usernameTaken(existingUser) == existingUser.data # NULL

\* signUp up to its first await: the username query and what signUp returns
\* on it, error NULL when the call goes on to the auth backend
signUp_check(table, username, lookup) ==
    LET existingUser == maybeSingle(table, "username", username, lookup)
    IN IF lookup.kind = "throws"
       THEN [error |-> Some(caught(lookup.message, SignupFailed))]
       ELSE IF existingUser.error # NULL /\ existingUser.error # Some(<<"PGRST116">>)
       THEN [error |-> Some(UsernameCheckFailed)]
       ELSE IF usernameTaken(existingUser)
       THEN [error |-> Some(UsernameExists)]
       ELSE [error |-> NULL]

\* signUp from its second await: the request to the auth backend and what
\* signUp returns on it
signUp_register(users, email, password, fullName, username, login) ==
    LET registered == auth_signUp(users, email, password, fullName, username, login)
    IN IF login.kind = "throws"
       THEN [error |-> Some(caught(login.message, SignupFailed)), backend_error |-> NULL,
             users |-> users]
       ELSE IF registered.error # NULL
       THEN [error |-> Some(signUpErrorMessage(registered.error[1])),
             backend_error |-> registered.error, users |-> users]
       ELSE [error |-> NULL, backend_error |-> NULL, users |-> registered.users]

\* resetPassword at its await; supabase.auth.resetPasswordForEmail answers
\* every address alike
resetPassword(email, reset) ==
    IF reset.kind = "throws"
    THEN [error |-> Some(caught(reset.message, ResetFailed)), backend_error |-> NULL]
    ELSE IF reset.kind = "error"
    THEN [error |-> Some(resetPasswordErrorMessage(reset.message)),
          backend_error |-> Some(reset.message)]
    ELSE [error |-> NULL, backend_error |-> NULL]

\* the profiles rows carrying a username
UsernameRows(username) ==
    {id \in DOMAIN user_profiles : user_profiles[id].username = username}

\* a call of a session goes on to its next await
Proceed(c, session) ==
    /\ sessions' = [sessions EXCEPT ![c] = session]
    /\ UNCHANGED auth

\* a call of a session returns: auth describes it until its caller has the result
Return(c, session, error, backend_error) ==
    /\ sessions' = [sessions EXCEPT ![c] = NoSession]
    /\ auth' = [op |-> session.op, identifier |-> session.identifier,
                password |-> session.password, username |-> session.username,
                existed |-> session.existed,
                backend_error |-> backend_error, calls |-> session.calls,
                user |-> IF error = NULL THEN session.user ELSE NULL,
                result |-> [error |-> error]]

\* signInWithPassword is answered: signIn returns its error or goes on to
\* ensureProfileExists, whose first request is the profiles query by id
Authenticate(c, session, login) ==
    LET logged == signIn_login(auth_users, session.identifier, session.email,
                               session.password, login)
    IN IF logged.error # NULL
       THEN Return(c, session, logged.error, logged.backend_error)
       ELSE Proceed(c, [session EXCEPT
                           !.pc = "fetch", !.user = logged.user,
                           !.calls = Append(@, Call("profiles.select", "id", logged.user))])

\* a session calls signIn and its first request is answered: signInWithPassword
\* for an email, the profiles query by username otherwise
SignIn(c, identifier, password, outcome) ==
    /\ auth = NoAuthCall
    /\ sessions[c].pc = "idle"
    /\ LET called == [NoSession EXCEPT !.op = "signIn", !.identifier = identifier,
                                       !.password = password]
       IN IF isEmail(identifier)
          THEN /\ outcome \in AuthOutcomes
               /\ Authenticate(c, [called EXCEPT
                                      !.email = identifier,
                                      !.calls = <<Call("auth.signInWithPassword", "email",
                                                       <<identifier, password>>)>>],
                               outcome)
          ELSE /\ outcome \in QueryOutcomes
               /\ LET looked == signIn_lookup(user_profiles, identifier, outcome)
                      asked  == [called EXCEPT
                                    !.existed = UsernameRows(identifier) # {},
                                    !.calls = <<Call("profiles.select", "username",
                                                     identifier)>>]
                  IN IF looked.error # NULL
                     THEN Return(c, asked, looked.error, NULL)
                     ELSE Proceed(c, [asked EXCEPT
                                         !.pc = "login", !.email = looked.email[1],
                                         !.calls = Append(@, Call("auth.signInWithPassword",
                                                                  "email",
                                                                  <<looked.email[1], password>>))])
    /\ UNCHANGED <<user_profiles, auth_users, notAuth>>

\* signInWithPassword of a signIn by username is answered
Login(c, outcome) ==
    /\ auth = NoAuthCall
    /\ sessions[c].pc = "login"
    /\ Authenticate(c, sessions[c], outcome)
    /\ UNCHANGED <<user_profiles, auth_users, notAuth>>

\* the profiles query of ensureProfileExists is answered
Fetch(c, outcome) ==
    /\ auth = NoAuthCall
    /\ sessions[c].pc = "fetch"
    /\ LET session == sessions[c]
           id      == session.user[1]
           fetched == ensureProfileExists(user_profiles, id, outcome)
       IN IF fetched.thrown # NULL
          THEN Return(c, session, Some(caught(fetched.thrown[1], SigninFailed)), NULL)
          ELSE IF fetched.insert
          THEN Proceed(c, [session EXCEPT
                              !.pc = "insert",
                              !.calls = Append(@, Call("profiles.insert", "id", <<id>>))])
          ELSE Return(c, session, NULL, NULL)
    /\ UNCHANGED <<user_profiles, auth_users, notAuth>>

\* the insert of ensureProfileExists is answered and signIn returns
Insert(c, outcome) ==
    /\ auth = NoAuthCall
    /\ sessions[c].pc = "insert"
    /\ LET id == sessions[c].user[1]
       IN user_profiles' =
             profiles_insert(user_profiles, id, profileData(auth_users[id]), outcome)
    /\ Return(c, sessions[c], NULL, NULL)
    /\ UNCHANGED <<auth_users, notAuth>>

\* a session calls signUp and its username query is answered
SignUp(c, email, password, fullName, username, outcome) ==
    /\ auth = NoAuthCall
    /\ sessions[c].pc = "idle"
    /\ LET checked == signUp_check(user_profiles, username, outcome)
           asked   == [NoSession EXCEPT
                          !.op = "signUp", !.identifier = email, !.password = password,
                          !.fullName = fullName, !.username = username,
                          !.existed = UsernameRows(username) # {},
                          !.calls = <<Call("profiles.select", "username", username)>>]
       IN IF checked.error # NULL
          THEN Return(c, asked, checked.error, NULL)
          ELSE Proceed(c, [asked EXCEPT
                              !.pc = "register",
                              !.calls = Append(@, Call("auth.signUp", "email",
                                                       <<email, password, fullName,
                                                         username>>))])
    /\ UNCHANGED <<user_profiles, auth_users, notAuth>>

\* the auth backend answers the sign-up request and signUp returns
Register(c, outcome) ==
    /\ auth = NoAuthCall
    /\ sessions[c].pc = "register"
    /\ \/ outcome.kind # "answer"
       \/ \E id \in DOMAIN auth_users : auth_users[id].email = sessions[c].identifier
       \/ UserIds \ DOMAIN auth_users # {}
    /\ LET session    == sessions[c]
           registered == signUp_register(auth_users, session.identifier, session.password,
                                         session.fullName, session.username, outcome)
       IN /\ auth_users' = registered.users
          /\ Return(c, session, registered.error, registered.backend_error)
    /\ UNCHANGED <<user_profiles, notAuth>>

\* a session calls resetPassword and the auth backend answers
ResetPassword(c, email, outcome) ==
    /\ auth = NoAuthCall
    /\ sessions[c].pc = "idle"
    /\ LET asked == [NoSession EXCEPT
                        !.op = "resetPassword", !.identifier = email,
                        !.calls = <<Call("auth.resetPasswordForEmail", "email", email)>>]
           reset == resetPassword(email, outcome)
       IN Return(c, asked, reset.error, reset.backend_error)
    /\ UNCHANGED <<user_profiles, auth_users, notAuth>>

\* the promise of the call that returned resolves: its caller has the result
Resolve ==
    /\ auth # NoAuthCall
    /\ auth' = NoAuthCall
    /\ UNCHANGED <<user_profiles, auth_users, sessions, notAuth>>

AuthInit == DbInit /\ TxIdle /\ CalcIdle /\ RolesIdle /\ MailIdle /\ AuthIdle /\ UiIdle

AuthNext ==
    \/ Resolve
    \/ \E c \in Callers :
        \/ \E i \in Identifiers, pw \in Passwords, outcome \in QueryOutcomes \cup AuthOutcomes :
              SignIn(c, i, pw, outcome)
        \/ \E outcome \in AuthOutcomes : Login(c, outcome)
        \/ \E outcome \in QueryOutcomes : Fetch(c, outcome)
        \/ \E outcome \in InsertOutcomes : Insert(c, outcome)
        \/ \E e \in Emails, u \in Usernames, outcome \in QueryOutcomes :
              SignUp(c, e, "secret", <<"New", "User">>, u, outcome)
        \/ \E outcome \in AuthOutcomes : Register(c, outcome)
        \/ \E e \in Emails, outcome \in AuthOutcomes : ResetPassword(c, e, outcome)

SpecAuth == AuthInit /\ [][AuthNext]_vars

----------------------------------------------------------------------------
(* update_daily_sales_summary over orders, their items and the calendar.  An  *)
(* order carries the columns the function reads and its one order_items row.  *)

SalesOrderIds == {1, 2}

MenuItems == {"m1", "m2"}

\* the last day of the calendar
MaxDate == 2

\* an order of one m1 at 10.00 or of one m2 at 25.50
SalesOrderRows ==
    {[restaurant_id |-> r, created_at |-> day, total_amount |-> IF item = "m1" THEN 1000 ELSE 2550,
      menu_item_id |-> item, quantity |-> 1] :
        r \in RestaurantIds, day \in 1..MaxDate, item \in MenuItems}

\* WHERE restaurant_id = r AND DATE(created_at) = day
OrdersOn(ords, r, day) ==
    {o \in DOMAIN ords : ords[o].restaurant_id = r /\ ords[o].created_at = day}

RECURSIVE SumAmount(_, _)
SumAmount(ords, S) ==
    IF S = {} THEN 0
    ELSE LET o == CHOOSE x \in S : TRUE
         IN ords[o].total_amount + SumAmount(ords, S \ {o})

RECURSIVE SumQuantity(_, _)
SumQuantity(ords, S) ==
    IF S = {} THEN 0
    ELSE LET o == CHOOSE x \in S : TRUE
         IN ords[o].quantity + SumQuantity(ords, S \ {o})

\* SUM(oi.quantity) of a menu item over the restaurant's orders of the day
QuantitySold(ords, r, day, item) ==
    SumQuantity(ords, {o \in OrdersOn(ords, r, day) : ords[o].menu_item_id = item})

\* GROUP BY oi.menu_item_id ORDER BY SUM(oi.quantity) DESC LIMIT 1: the rows
\* the subquery can return, items that tie for the top in either order
MostPopular(ords, r, day) ==
    LET sold == {ords[o].menu_item_id : o \in OrdersOn(ords, r, day)}
    IN IF sold = {} THEN {NULL}
       ELSE {Some(item) : item \in {i \in sold :
                \A j \in sold : QuantitySold(ords, r, day, j) <= QuantitySold(ords, r, day, i)}}

\* AVG(o.total_amount) stored in numeric(10,2): rounded half up
Average(sum, count) == (2 * sum + count) \div (2 * count)

\* the row the SELECT yields for a restaurant with orders today
Excluded(ords, r, day, popular) ==
    [restaurant_id |-> r, date |-> day,
     total_orders |-> Cardinality(OrdersOn(ords, r, day)),
     total_revenue |-> SumAmount(ords, OrdersOn(ords, r, day)),
     average_order_value |->
        Average(SumAmount(ords, OrdersOn(ords, r, day)), Cardinality(OrdersOn(ords, r, day))),
     most_popular_item_id |-> popular]

RECURSIVE Copies(_, _)
Copies(summary, S) ==
    IF S = {} THEN 0
    ELSE LET x == CHOOSE y \in S : TRUE
         IN summary[x] + Copies(summary, S \ {x})

\* INSERT ... ON CONFLICT (restaurant_id, date) DO UPDATE SET ... = EXCLUDED. ...
\* The table is the bag of its rows (row -> number of copies), the columns id,
\* created_at and updated_at left out.
upsert(summary, row) ==
    LET conflicts == {x \in DOMAIN summary :
                        x.restaurant_id = row.restaurant_id /\ x.date = row.date}
        others    == DOMAIN summary \ conflicts
    IN [x \in others \cup {row} |->
            IF x \in others THEN summary[x]
            ELSE IF conflicts = {} THEN 1
            ELSE Copies(summary, conflicts)]

\* the function: one row per restaurant with orders created today; popular
\* gives, per restaurant, the row the most-popular subquery returned
RECURSIVE UpsertAll(_, _, _, _, _)
UpsertAll(summary, ords, day, popular, groups) ==
    IF groups = {} THEN summary
    ELSE LET r == CHOOSE x \in groups : TRUE
         IN UpsertAll(upsert(summary, Excluded(ords, r, day, popular[r])),
                      ords, day, popular, groups \ {r})

update_daily_sales_summary(summary, ords, day, popular) ==
    UpsertAll(summary, ords, day, popular,
              {r \in RestaurantIds : OrdersOn(ords, r, day) # {}})

\* INSERT INTO orders, created_at DEFAULT now()
InsertSalesOrder(o, row) ==
    /\ o \in SalesOrderIds \ DOMAIN sales_orders
    /\ row.created_at = current_date
    /\ sales_orders' = (o :> row) @@ sales_orders
    /\ sales_last' = SalesStatement("change", FALSE, <<>>)
    /\ UNCHANGED <<daily_sales_summary, current_date, notSales>>

\* DELETE FROM orders WHERE id = o
DeleteSalesOrder(o) ==
    /\ o \in DOMAIN sales_orders
    /\ sales_orders' = [x \in DOMAIN sales_orders \ {o} |-> sales_orders[x]]
    /\ sales_last' = SalesStatement("change", FALSE, <<>>)
    /\ UNCHANGED <<daily_sales_summary, current_date, notSales>>

\* midnight passes
NextDay ==
    /\ current_date < MaxDate
    /\ current_date' = current_date + 1
    /\ sales_last' = SalesStatement("midnight", FALSE, <<>>)
    /\ UNCHANGED <<sales_orders, daily_sales_summary, notSales>>

\* SELECT update_daily_sales_summary()
RunSummary(popular) ==
    /\ \A r \in RestaurantIds : popular[r] \in MostPopular(sales_orders, r, current_date)
    /\ daily_sales_summary' =
          update_daily_sales_summary(daily_sales_summary, sales_orders, current_date, popular)
    /\ sales_last' = SalesStatement("run", sales_last.op = "run",
                                    IF sales_last.op = "run" THEN daily_sales_summary ELSE <<>>)
    /\ UNCHANGED <<sales_orders, current_date, notSales>>

SalesInit == DbInit /\ TxIdle /\ CalcIdle /\ RolesIdle /\ MailIdle /\ AuthIdle /\ UiIdle

SalesNext ==
    \/ \E o \in SalesOrderIds, row \in SalesOrderRows : InsertSalesOrder(o, row)
    \/ \E o \in SalesOrderIds : DeleteSalesOrder(o)
    \/ NextDay
    \/ \E popular \in [RestaurantIds -> {NULL} \cup {Some(i) : i \in MenuItems}] :
          RunSummary(popular)

SpecSales == SalesInit /\ [][SalesNext]_vars

----------------------------------------------------------------------------
(* The Auth page: its useState values, its controls and handleSubmit, whose   *)
(* await of the auth operation is a step of its own.                          *)

\* the white-space and line-terminator characters of ECMAScript, which
\* String.prototype.trim strips and \s matches; a character with no escape is
\* written by its code point
Whitespace ==
    {" ", "\t", "\n", "\r", "\f", "U+000B", "U+00A0", "U+FEFF", "U+2028", "U+2029",
     "U+1680", "U+2000", "U+2001", "U+2002", "U+2003", "U+2004", "U+2005", "U+2006",
     "U+2007", "U+2008", "U+2009", "U+200A", "U+202F", "U+205F", "U+3000"}

\* [a-zA-Z0-9]
AlphaNumerics ==
    {"a", "b", "c", "d", "e", "f", "g", "h", "i", "j", "k", "l", "m",
     "n", "o", "p", "q", "r", "s", "t", "u", "v", "w", "x", "y", "z",
     "A", "B", "C", "D", "E", "F", "G", "H", "I", "J", "K", "L", "M",
     "N", "O", "P", "Q", "R", "S", "T", "U", "V", "W", "X", "Y", "Z",
     "0", "1", "2", "3", "4", "5", "6", "7", "8", "9"}

\* [a-zA-Z0-9_]
WordCharacters == AlphaNumerics \cup {"_"}

\* text without its leading and trailing characters of a set
strip(text, stripped) ==
    LET kept == {i \in DOMAIN text : text[i] \notin stripped}
    IN IF kept = {} THEN <<>>
       ELSE LET first == CHOOSE i \in kept : \A j \in kept : i <= j
                final == CHOOSE i \in kept : \A j \in kept : j <= i
            IN SubSeq(text, first, final)

\* String.prototype.trim
trim(text) == strip(text, Whitespace)

\* /^[a-zA-Z0-9_]+$/.test(text)
username_pattern(text) ==
    text # <<>> /\ \A i \in DOMAIN text : text[i] \in WordCharacters

\* /^[^\s@]+@[^\s@]+\.[^\s@]+$/.test(text)
email_pattern(text) ==
    \E at \in DOMAIN text, dot \in DOMAIN text :
        /\ text[at] = "@" /\ text[dot] = "."
        /\ 1 < at /\ at + 1 < dot /\ dot < Len(text)
        /\ \A i \in DOMAIN text \ {at} : text[i] \notin Whitespace \cup {"@"}

validateForm(p) ==
    IF ~p.isLogin /\ ~p.isForgotPassword
    THEN /\ trim(p.fullName) # <<>>
         /\ trim(p.username) # <<>>
         /\ Len(trim(p.username)) >= 3
         /\ username_pattern(trim(p.username))
         /\ trim(p.email) # <<>>
         /\ Len(p.password) >= 6
    ELSE IF p.isLogin /\ ~p.isForgotPassword
    THEN trim(p.identifier) # <<>> /\ trim(p.password) # <<>>
    ELSE /\ trim(p.email) # <<>>
         /\ email_pattern(trim(p.email))

\* a text of one character repeated
Repeated(character, length) == [i \in 1..length |-> character]

\* what can be typed or pasted into each input
Typed ==
    [fullName   |-> {<<"U+00A0">>, <<"A", "l">>},
     username   |-> {<<"a", "b">>, <<"a", "-", "b">>, <<"b", "o", "b">>},
     email      |-> {<<"a", "@", "U+00FC">>, <<" ", "a", "@", "b", ".", "c">>,
                     <<"a", "@", "b", ".">> \o Repeated("c", 64)},
     password   |-> {<<"1", "2", "3", "4", "5">>, <<"s", "e", "c", "r", "e", "t">>,
                     <<" ", " ", " ", " ", " ", " ">>},
     identifier |-> {<<" ">>, <<"a", "\r", "@", "b", ".", "c">>,
                     <<"a", "@", "b", ".", "c", "\r", "\n">>}]

\* the inputs the form shows
Inputs(p) ==
    IF p.isForgotPassword THEN {"email"}
    ELSE IF p.isLogin THEN {"identifier", "password"}
    ELSE {"fullName", "username", "email", "password"}

\* the type attribute of an input as rendered
InputType(p, field) ==
    IF field = "email" THEN "email"
    ELSE IF field = "identifier"
    THEN (IF p.loginType = "email" THEN "email" ELSE "text")
    ELSE IF field = "password"
    THEN (IF p.showPassword THEN "text" ELSE "password")
    ELSE "text"

LineBreaks == {"\n", "\r"}

IsNoNewline(character) == character \notin LineBreaks

\* the place of the LF of a CR LF, which together make one space
IsNoSecondOfPair(character) == character # "LF of CR LF"

\* the text the browser puts into a one-line input when the user types or
\* pastes it: the line breaks at its end are dropped, each other line break,
\* CR LF counting as one, becomes a space
inserted(text) ==
    LET breaks == {i \in DOMAIN text : text[i] \in LineBreaks}
        trailing == {i \in breaks : \A j \in i..Len(text) : j \in breaks}
        body == SubSeq(text, 1, Len(text) - Cardinality(trailing))
        spaced == [i \in DOMAIN body |->
                     IF i > 1 /\ body[i] = "\n" /\ body[i - 1] = "\r" THEN "LF of CR LF"
                     ELSE IF body[i] \in LineBreaks THEN " "
                     ELSE body[i]]
    IN SelectSeq(spaced, IsNoSecondOfPair)

\* the value the browser keeps for an input of a type: line breaks are
\* stripped, and from an email input leading and trailing ASCII whitespace too
sanitized(type, text) ==
    IF type = "email"
    THEN strip(SelectSeq(text, IsNoNewline), {"\t", "\n", "\f", "\r", " "})
    ELSE SelectSeq(text, IsNoNewline)

\* the characters of the local part of a valid e-mail address
EmailLocalCharacters ==
    AlphaNumerics \cup {".", "!", "#", "$", "%", "&", "U+0027", "*", "+", "/", "=", "?",
                        "^", "_", "U+0060", "{", "|", "}", "~", "-"}

\* type="email": the value is a valid e-mail address, a local part, @ and
\* labels of letters, digits and inner hyphens separated by dots, each label
\* of at most 63 characters (any 64 characters in a row hold a dot)
type_email(text) ==
    \E at \in DOMAIN text :
        /\ text[at] = "@" /\ 1 < at /\ at < Len(text)
        /\ \A i \in 1..(at - 1) : text[i] \in EmailLocalCharacters
        /\ \A i \in (at + 1)..Len(text) :
              /\ text[i] \in AlphaNumerics \cup {"-", "."}
              /\ text[i] = "." =>
                    /\ at + 1 < i /\ i < Len(text)
                    /\ text[i - 1] \in AlphaNumerics /\ text[i + 1] \in AlphaNumerics
        /\ text[at + 1] \in AlphaNumerics /\ text[Len(text)] \in AlphaNumerics
        /\ \A i \in (at + 1)..(Len(text) - 63) : \E j \in i..(i + 63) : text[j] = "."

\* the code points of the letters outside ASCII that can be typed
CodePoints == ("U+00E9" :> 233) @@ ("U+00FC" :> 252)

\* the digits of Punycode, for the values 0 to 35
PunycodeDigits ==
    <<"a", "b", "c", "d", "e", "f", "g", "h", "i", "j", "k", "l", "m",
      "n", "o", "p", "q", "r", "s", "t", "u", "v", "w", "x", "y", "z",
      "0", "1", "2", "3", "4", "5", "6", "7", "8", "9">>

UpperCase ==
    <<"A", "B", "C", "D", "E", "F", "G", "H", "I", "J", "K", "L", "M",
      "N", "O", "P", "Q", "R", "S", "T", "U", "V", "W", "X", "Y", "Z">>

\* the lower-case letter of an ASCII letter
lowered(character) ==
    IF \E i \in DOMAIN UpperCase : UpperCase[i] = character
    THEN PunycodeDigits[CHOOSE i \in DOMAIN UpperCase : UpperCase[i] = character]
    ELSE character

\* a basic code point of Punycode: an ASCII character
IsBasic(character) == character \notin DOMAIN CodePoints

\* the threshold of the digit at position k under a bias (RFC 3492, 6.3)
threshold(k, bias) == IF k <= bias THEN 1 ELSE IF k >= bias + 26 THEN 26 ELSE k - bias

\* a number as a generalized variable-length integer
RECURSIVE variable_length(_, _, _)
variable_length(q, k, bias) ==
    LET t == threshold(k, bias)
    IN IF q < t THEN <<PunycodeDigits[q + 1]>>
       ELSE <<PunycodeDigits[t + ((q - t) % (36 - t)) + 1]>>
                \o variable_length((q - t) \div (36 - t), k + 36, bias)

RECURSIVE adapt_scaled(_, _)
adapt_scaled(delta, k) ==
    IF delta > 455 THEN adapt_scaled(delta \div 35, k + 36)
    ELSE k + ((36 * delta) \div (delta + 38))

\* the bias after a delta was encoded (RFC 3492, 6.1)
adapt(delta, numpoints, firsttime) ==
    LET damped == IF firsttime THEN delta \div 700 ELSE delta \div 2
    IN adapt_scaled(damped + (damped \div numpoints), 0)

\* one pass over the label for the code point reached: a delta is written
\* for each place that holds it
RECURSIVE punycode_pass(_, _, _, _)
punycode_pass(codes, i, reached, s) ==
    IF i > Len(codes) THEN s
    ELSE IF codes[i] < reached
    THEN punycode_pass(codes, i + 1, reached, [s EXCEPT !.delta = @ + 1])
    ELSE IF codes[i] = reached
    THEN punycode_pass(codes, i + 1, reached,
            [output |-> s.output \o variable_length(s.delta, 36, s.bias),
             bias |-> adapt(s.delta, s.handled + 1, s.handled = s.basic),
             delta |-> 0, handled |-> s.handled + 1, basic |-> s.basic])
    ELSE punycode_pass(codes, i + 1, reached, s)

RECURSIVE punycode_from(_, _, _)
punycode_from(codes, next, s) ==
    IF s.handled = Len(codes) THEN s.output
    ELSE LET least == CHOOSE m \in {codes[i] : i \in DOMAIN codes} :
                         /\ m >= next
                         /\ \A i \in DOMAIN codes : codes[i] >= next => m <= codes[i]
             passed == punycode_pass(codes, 1, least,
                          [s EXCEPT !.delta = @ + (least - next) * (s.handled + 1)])
         IN punycode_from(codes, least + 1, [passed EXCEPT !.delta = @ + 1])

\* the Punycode of a label (RFC 3492, 6.3): its ASCII characters, a hyphen
\* when there are any, and the other code points as deltas
punycode(label) ==
    LET basic == SelectSeq(label, IsBasic)
        codes == [i \in DOMAIN label |-> IF IsBasic(label[i]) THEN 0 ELSE CodePoints[label[i]]]
    IN punycode_from(codes, 128,
          [output |-> basic \o (IF basic = <<>> THEN <<>> ELSE <<"-">>),
           bias |-> 72, delta |-> 0, handled |-> Len(basic), basic |-> Len(basic)])

\* a character outside ASCII the conversion ignores: it is removed
uts46_ignored == {"U+FEFF"}

\* the characters outside ASCII the conversion maps to a space
uts46_mapped_to_space ==
    {"U+00A0", "U+2000", "U+2001", "U+2002", "U+2003", "U+2004", "U+2005", "U+2006",
     "U+2007", "U+2008", "U+2009", "U+200A", "U+202F", "U+205F", "U+3000"}

\* the characters outside ASCII the conversion does not allow
uts46_disallowed == {"U+1680", "U+2028", "U+2029"}

\* the characters outside ASCII that can be typed
NonASCII ==
    DOMAIN CodePoints \cup uts46_ignored \cup uts46_mapped_to_space \cup uts46_disallowed

IsNotIgnored(character) == character \notin uts46_ignored

\* the mapping step of the conversion (UTS #46) on a host name: ignored
\* characters are removed, ASCII letters are lower-cased
uts46_map(host) ==
    LET kept == SelectSeq(host, IsNotIgnored)
    IN [i \in DOMAIN kept |->
           IF kept[i] \in uts46_mapped_to_space THEN " " ELSE lowered(kept[i])]

\* the letters, digits and the hyphen: the ASCII characters of a host name
LetterDigitHyphen == {PunycodeDigits[i] : i \in DOMAIN PunycodeDigits} \cup {"-"}

\* the value of a Punycode digit, -1 for a character that is none
digit_value(character) ==
    IF \E i \in DOMAIN PunycodeDigits : PunycodeDigits[i] = character
    THEN (CHOOSE i \in DOMAIN PunycodeDigits : PunycodeDigits[i] = character) - 1
    ELSE -1

\* the code point of a lower-case letter, a digit or the hyphen
code_point(character) ==
    IF character = "-" THEN 45
    ELSE IF digit_value(character) < 26 THEN 97 + digit_value(character)
    ELSE 22 + digit_value(character)

\* the code points from U+0080 to U+00FF that are valid in a label: the
\* others are mapped, ignored or not allowed
ValidLatin1 ==
    (161..167) \cup {169, 171, 172, 174, 176, 177, 182, 183, 187, 191, 215, 223}
        \cup (224..255)

\* a generalized variable-length integer read from the digits at a place
\* (RFC 3492, 6.2); a digit missing or a number beyond 32 bits fails
RECURSIVE decode_integer(_, _, _, _, _, _)
decode_integer(input, at, i, w, k, bias) ==
    IF at > Len(input) THEN [ok |-> FALSE, i |-> 0, next |-> at]
    ELSE LET digit == digit_value(input[at])
             t == threshold(k, bias)
         IN IF digit < 0 \/ digit > (2147483647 - i) \div w
            THEN [ok |-> FALSE, i |-> 0, next |-> at]
            ELSE IF digit < t THEN [ok |-> TRUE, i |-> i + digit * w, next |-> at + 1]
            ELSE IF w > 2147483647 \div (36 - t) THEN [ok |-> FALSE, i |-> 0, next |-> at]
            ELSE decode_integer(input, at + 1, i + digit * w, w * (36 - t), k + 36, bias)

\* the code points of a label read from its Punycode digits; a code point
\* beyond U+10FFFF or a surrogate fails
RECURSIVE decode_from(_, _, _, _, _, _)
decode_from(input, at, n, i, bias, output) ==
    IF at > Len(input) THEN [ok |-> TRUE, codes |-> output]
    ELSE LET read == decode_integer(input, at, i, 1, 36, bias)
             count == Len(output) + 1
             code == n + (read.i \div count)
             place == read.i % count
         IN IF ~read.ok \/ read.i \div count > 1114111 - n \/ code \in 55296..57343
            THEN [ok |-> FALSE, codes |-> <<>>]
            ELSE decode_from(input, read.next, code, place + 1,
                             adapt(read.i - i, count, i = 0),
                             SubSeq(output, 1, place) \o <<code>>
                                 \o SubSeq(output, place + 1, Len(output)))

\* the code points a text of Punycode stands for: the characters before its
\* last hyphen as they are, then the digits
punycode_decoded(input) ==
    LET hyphens == {i \in DOMAIN input : input[i] = "-"}
        delimiter == IF hyphens = {} THEN 0 ELSE CHOOSE i \in hyphens : \A j \in hyphens : j <= i
        basic == IF delimiter > 1 THEN delimiter - 1 ELSE 0
    IN decode_from(input, IF basic > 0 THEN delimiter + 1 ELSE 1, 128, 0, 72,
                   [j \in 1..basic |-> code_point(input[j])])

\* the code points of a label stand in the places the conversion rejects:
\* hyphens in the third and fourth place, or a hyphen at an end
hyphens_misplaced(codes) ==
    \/ Len(codes) >= 4 /\ codes[3] = 45 /\ codes[4] = 45
    \/ codes[1] = 45
    \/ codes[Len(codes)] = 45

\* a label of a mapped host name in ASCII (UTS #46 ToASCII): a label with a
\* letter outside ASCII becomes xn-- and its Punycode, a label that starts
\* with xn-- is decoded, checked and left as it is. error: the conversion
\* fails on the label; unknown: the label decodes to code points beyond
\* U+00FF, of which the model does not say whether a label may hold them
label_to_ascii(label) ==
    LET settled_label(error, ascii) == [error |-> error, unknown |-> FALSE, ascii |-> ascii]
    IN IF label = <<>> \/ \E i \in DOMAIN label : label[i] \in uts46_disallowed
       THEN settled_label(TRUE, label)
       ELSE IF Len(label) >= 4 /\ SubSeq(label, 1, 4) = <<"x", "n", "-", "-">>
       THEN IF \E i \in DOMAIN label : IsBasic(label[i]) /\ label[i] \notin LetterDigitHyphen
            THEN \* another ASCII character: no host name of a valid address has it
                 settled_label(FALSE, label)
            ELSE IF \/ \E i \in DOMAIN label : ~IsBasic(label[i])
                    \/ Len(label) = 4
                    \/ Len(label) > 5 /\ label[Len(label)] = "-"
                    \/ Len(label) > 63
            THEN settled_label(TRUE, label)
            ELSE LET decoded == punycode_decoded(SubSeq(label, 5, Len(label)))
                 IN IF ~decoded.ok THEN settled_label(TRUE, label)
                    ELSE [error |-> \/ decoded.codes = <<>>
                                    \/ \E i \in DOMAIN decoded.codes :
                                          decoded.codes[i] \in (128..255) \ ValidLatin1
                                    \/ hyphens_misplaced(decoded.codes),
                          unknown |-> \E i \in DOMAIN decoded.codes : decoded.codes[i] > 255,
                          ascii |-> label]
       ELSE LET ascii == IF \A i \in DOMAIN label : IsBasic(label[i]) THEN label
                         ELSE <<"x", "n", "-", "-">> \o punycode(label)
            IN settled_label(\/ Len(label) >= 4 /\ label[3] = "-" /\ label[4] = "-"
                             \/ label[1] = "-"
                             \/ label[Len(label)] = "-"
                             \/ Len(ascii) > 63,
                             ascii)

\* the labels of a host name, which dots separate
RECURSIVE labels(_)
labels(host) ==
    IF \A i \in DOMAIN host : host[i] # "." THEN <<host>>
    ELSE LET dot == CHOOSE i \in DOMAIN host :
                       host[i] = "." /\ \A j \in 1..(i - 1) : host[j] # "."
         IN <<SubSeq(host, 1, dot - 1)>> \o labels(SubSeq(host, dot + 1, Len(host)))

RECURSIVE joined(_)
joined(parts) ==
    IF Len(parts) = 1 THEN parts[1] ELSE parts[1] \o <<".">> \o joined(Tail(parts))

\* the values an email input can hand to scripts for an address a user
\* typed: an address with a character outside ASCII and an @ has its host
\* name mapped and converted to ASCII label by label; when the conversion
\* fails (an empty label, a misplaced hyphen, a label that is no valid
\* Punycode or of over 63 characters, a name of over 253) or yields no valid
\* e-mail address, the address is left as typed. Both values are possible
\* where the model does not say whether the conversion fails
ConvertEmailAddressToASCII(address) ==
    IF \A i \in DOMAIN address : address[i] \notin NonASCII THEN {address}
    ELSE IF \A i \in DOMAIN address : address[i] # "@" THEN {address}
    ELSE LET at == CHOOSE i \in DOMAIN address :
                      address[i] = "@" /\ \A j \in 1..(i - 1) : address[j] # "@"
             parts == labels(uts46_map(SubSeq(address, at + 1, Len(address))))
             converted == [i \in DOMAIN parts |-> label_to_ascii(parts[i])]
             domain_name == joined([i \in DOMAIN parts |-> converted[i].ascii])
             ascii_email == SubSeq(address, 1, at) \o domain_name
         IN IF \/ \E i \in DOMAIN parts : converted[i].error
               \/ Len(domain_name) > 253
               \/ ~type_email(ascii_email)
            THEN {address}
            ELSE IF \E i \in DOMAIN parts : converted[i].unknown
            THEN {address, ascii_email}
            ELSE {ascii_email}

\* the values an input of a type can hand to onChange for a text the user
\* typed or pasted
ConvertFromVisibleValue(type, text) ==
    IF type = "email" THEN ConvertEmailAddressToASCII(sanitized(type, text))
    ELSE {sanitized(type, text)}

\* minLength={3} on the username input, minLength={6} on the password input
MinLength == [username |-> 3, password |-> 6]

\* the constraints the browser validates before it dispatches the submit
\* event: required on every input, pattern on the username, type="email",
\* and minLength on the username and the password, which counts only for a
\* value the element took from an edit of the user
checkValidity(p) ==
    \A field \in Inputs(p) :
        LET type == InputType(p, field)
            value == sanitized(type, p[field])
        IN /\ value # <<>>
           /\ field = "username" => username_pattern(value)
           /\ field \in p.edited => Len(value) >= MinLength[field]
           /\ type = "email" => type_email(value)

\* the form is rendered: neither confirmation screen replaces it
FormShown(p) == p.route = "/auth" /\ ~p.showEmailSent /\ ~p.showResetSent

\* every text set to '' by the component
ClearedFields(p) ==
    [p EXCEPT !.email = <<>>, !.password = <<>>, !.showPassword = FALSE,
              !.fullName = <<>>, !.username = <<>>, !.identifier = <<>>,
              !.edited = {}]

\* the most handleSubmit calls awaiting their auth operation at once
MaxInFlight == 2

\* the last step of the page: a submit event handled, the operation awaited
\* by the mounted component settled with an outcome, or anything else
PageEvent(event, outcome) == [event |-> event, outcome |-> outcome]

\* the router shows another route: the component is not mounted and has no state
Elsewhere(route, signedIn) == [InitialPage EXCEPT !.route = route, !.user = signedIn]

\* the component mounts with its initial state; its effect navigates to the
\* dashboard at once when the auth context has a user
Mounted(signedIn) ==
    IF signedIn THEN Elsewhere("/dashboard", TRUE) ELSE [InitialPage EXCEPT !.user = FALSE]

\* a call whose component is unmounted: what is left of it is the operation
\* whose result it handles
Stale(call) == [call EXCEPT !.mounted = FALSE, !.argument = <<>>]

\* the calls in flight once the component that made them is unmounted
Unmounted(calls) == BagOfAll(Stale, calls)

\* the user types or pastes a text into an input; onChange: the state takes
\* the value of the input element, which for an email input has the host
\* name of the address in ASCII
Type(field, text) ==
    /\ FormShown(page) /\ field \in Inputs(page)
    /\ \E value \in ConvertFromVisibleValue(InputType(page, field), inserted(text)) :
          page' = [page EXCEPT ![field] = value,
                            !.edited = @ \cup ({field} \cap DOMAIN MinLength)]
    /\ page_last' = PageEvent("other", "none")
    /\ UNCHANGED <<inflight, notPage>>

\* onValueChange of the Email / Username tabs of the sign-in form
SetLoginType(value) ==
    /\ FormShown(page) /\ page.isLogin /\ ~page.isForgotPassword
    /\ value # page.loginType
    /\ page' = [page EXCEPT !.loginType = value]
    /\ page_last' = PageEvent("other", "none")
    /\ UNCHANGED <<inflight, notPage>>

\* the eye button in the password input
togglePasswordVisibility ==
    /\ FormShown(page) /\ ~page.isForgotPassword
    /\ page' = [page EXCEPT !.showPassword = ~page.showPassword]
    /\ page_last' = PageEvent("other", "none")
    /\ UNCHANGED <<inflight, notPage>>

\* the link under the form that switches between sign-in and sign-up
ToggleMode ==
    /\ FormShown(page) /\ ~page.isForgotPassword
    /\ page' = [ClearedFields(page) EXCEPT !.isLogin = ~page.isLogin]
    /\ page_last' = PageEvent("other", "none")
    /\ UNCHANGED <<inflight, notPage>>

\* the 'Forgot your password?' link: the reset form replaces the inputs of
\* the sign-in form, which keep their texts in the state
ForgotPassword ==
    /\ FormShown(page) /\ page.isLogin /\ ~page.isForgotPassword
    /\ page' = [page EXCEPT !.isForgotPassword = TRUE, !.edited = {}]
    /\ page_last' = PageEvent("other", "none")
    /\ UNCHANGED <<inflight, notPage>>

\* the back arrow of the reset form: the inputs of the sign-in form are
\* rendered anew with the texts of the state
BackArrow ==
    /\ FormShown(page) /\ page.isForgotPassword
    /\ page' = [page EXCEPT !.isForgotPassword = FALSE]
    /\ page_last' = PageEvent("other", "none")
    /\ UNCHANGED <<inflight, notPage>>

\* the submit button without disabled={loading}
SubmitEnabled_Always(loading) == TRUE

\* disabled={loading} on the submit button
SubmitEnabled(loading) == ~loading

\* the auth operation handleSubmit awaits, with its first argument
Operation(p) ==
    IF p.isForgotPassword THEN [op |-> "resetPassword", argument |-> trim(p.email)]
    ELSE IF p.isLogin THEN [op |-> "signIn", argument |-> trim(p.identifier)]
    ELSE [op |-> "signUp", argument |-> trim(p.email)]

\* the form is submitted: the browser dispatches the submit event when the
\* form's constraints hold, and handleSubmit runs up to its await
HandleSubmit ==
    /\ FormShown(page) /\ SubmitEnabled(page.loading)
    /\ checkValidity(page)
    /\ BagCardinality(inflight) < MaxInFlight
    /\ IF validateForm(page)
       THEN /\ page' = [page EXCEPT !.loading = TRUE]
            /\ inflight' = inflight (+) SetToBag({[op |-> Operation(page).op,
                                                   argument |-> Operation(page).argument,
                                                   mounted |-> TRUE]})
       ELSE UNCHANGED <<page, inflight>>
    /\ page_last' = PageEvent("submit", "none")
    /\ UNCHANGED notPage

\* setLoading(false) at the end of the try block instead of in finally
finally_loading_OnlyOnReturn(outcome) == outcome = "throws"

\* finally { setLoading(false) }
finally_loading(outcome) == FALSE

\* handleSubmit from its await on, in the component that submitted: the branch
\* taken at submit time, what the auth operation did (returned without error,
\* returned an error, threw).  A confirmation screen replaces the form and
\* its inputs
settled(p, op, outcome) ==
    LET after ==
            IF outcome # "ok" THEN p
            ELSE IF op = "resetPassword"
            THEN [p EXCEPT !.showResetSent = TRUE, !.email = <<>>, !.edited = {}]
            ELSE IF op = "signIn" THEN [p EXCEPT !.route = "/dashboard"]
            ELSE [p EXCEPT !.showEmailSent = TRUE, !.email = <<>>, !.password = <<>>,
                           !.fullName = <<>>, !.username = <<>>, !.edited = {}]
    IN [after EXCEPT !.loading = finally_loading(outcome)]

Outcomes == {"ok", "error", "throws"}

Without(calls, call) == calls (-) SetToBag({call})

\* an awaited auth operation settles. State set on a component that is no
\* longer mounted is dropped; navigate('/dashboard') after a sign-in takes
\* effect wherever the router is, and unmounts the page
Settle(call, outcome) ==
    /\ BagIn(call, inflight)
    /\ LET after == IF call.mounted THEN settled(page, call.op, outcome) ELSE page
           leaves == call.op = "signIn" /\ outcome = "ok"
       IN /\ page' = IF leaves THEN Elsewhere("/dashboard", page.user) ELSE after
          /\ inflight' = IF leaves THEN Unmounted(Without(inflight, call))
                         ELSE Without(inflight, call)
    /\ page_last' = IF call.mounted THEN PageEvent("settle", outcome)
                     ELSE PageEvent("other", "none")
    /\ UNCHANGED notPage

\* 'Back to Login' on either confirmation screen
resetForm ==
    /\ page.route = "/auth" /\ (page.showEmailSent \/ page.showResetSent)
    /\ page' = [ClearedFields(page) EXCEPT !.isLogin = TRUE, !.isForgotPassword = FALSE,
                                           !.showEmailSent = FALSE, !.showResetSent = FALSE]
    /\ page_last' = PageEvent("other", "none")
    /\ UNCHANGED <<inflight, notPage>>

\* the route /auth is opened again: the component mounts
OpenAuthPage ==
    /\ page.route # "/auth"
    /\ page' = Mounted(page.user)
    /\ page_last' = PageEvent("other", "none")
    /\ UNCHANGED <<inflight, notPage>>

\* the user of the auth context changes; the effect of the mounted page
\* navigates to the dashboard when there is one, also while a call is awaited
AuthStateChange(signedIn) ==
    /\ signedIn # page.user
    /\ IF signedIn /\ page.route = "/auth"
       THEN /\ page' = Elsewhere("/dashboard", TRUE)
            /\ inflight' = Unmounted(inflight)
       ELSE /\ page' = [page EXCEPT !.user = signedIn]
            /\ UNCHANGED inflight
    /\ page_last' = PageEvent("other", "none")
    /\ UNCHANGED notPage

\* authService.signOut: the session ends and the browser loads "/", which
\* drops the page and every call it awaited
signOut ==
    /\ page.user \/ page.route # "/"
    /\ page' = Elsewhere("/", FALSE)
    /\ inflight' = EmptyBag
    /\ page_last' = PageEvent("other", "none")
    /\ UNCHANGED notPage

\* the page is opened, with or without a user in the auth context
PageInit ==
    /\ DbInit /\ TxIdle /\ CalcIdle /\ RolesIdle /\ MailIdle /\ AuthIdle
    /\ RaceIdle /\ SalesIdle
    /\ page \in {Mounted(signedIn) : signedIn \in BOOLEAN}
    /\ inflight = EmptyBag
    /\ page_last = PageEvent("none", "none")

PageNext ==
    \/ \E field \in DOMAIN Typed : \E text \in Typed[field] : Type(field, text)
    \/ \E value \in {"email", "username"} : SetLoginType(value)
    \/ togglePasswordVisibility
    \/ ToggleMode
    \/ ForgotPassword
    \/ BackArrow
    \/ HandleSubmit
    \/ \E call \in BagToSet(inflight), outcome \in Outcomes : Settle(call, outcome)
    \/ resetForm
    \/ OpenAuthPage
    \/ \E signedIn \in BOOLEAN : AuthStateChange(signedIn)
    \/ signOut

SpecPage == PageInit /\ [][PageNext]_vars

\* an auth operation that was called returns or throws
SpecPageFair ==
    SpecPage /\ WF_vars(\E call \in BagToSet(inflight), outcome \in Outcomes :
                            Settle(call, outcome))

----------------------------------------------------------------------------
(* signUp calls of two browser sessions, one await at a time *)

InFlight(c) == signups[c].pc \in {"check", "register"}

\* a session calls signUp; calls in progress at that moment run concurrently with it
BeginSignUp(c, email, username) ==
    /\ signups[c].pc = "idle"
    /\ LET overlap == \E d \in Callers \ {c} : InFlight(d)
       IN signups' =
            [d \in Callers |->
                IF d = c
                THEN [NoSignUp EXCEPT !.pc = "check", !.email = email,
                                      !.username = username, !.concurrent = overlap]
                ELSE IF InFlight(d) THEN [signups[d] EXCEPT !.concurrent = TRUE]
                ELSE signups[d]]
    /\ UNCHANGED <<authVars, notRace>>

\* the username query of a call is answered
CheckUsername(c, lookup) ==
    /\ signups[c].pc = "check"
    /\ LET checked == signUp_check(user_profiles, signups[c].username, lookup)
       IN signups' =
            [signups EXCEPT ![c] =
                IF checked.error # NULL
                THEN [@ EXCEPT !.pc = "done", !.result = [error |-> checked.error]]
                ELSE [@ EXCEPT !.pc = "register"]]
    /\ UNCHANGED <<authVars, notRace>>

\* the auth backend answers the sign-up request of a call
RegisterUser(c, login) ==
    /\ signups[c].pc = "register"
    /\ UserIds \ DOMAIN auth_users # {}
    /\ LET registered == signUp_register(auth_users, signups[c].email, "secret",
                                         <<"New", "User">>, signups[c].username, login)
       IN /\ auth_users' = registered.users
          /\ signups' = [signups EXCEPT ![c] =
                            [@ EXCEPT !.pc = "done", !.reached = TRUE,
                                      !.result = [error |-> registered.error]]]
    /\ UNCHANGED <<user_profiles, sessions, auth, notRace>>

\* alice is registered, and has a profile once she has signed in
RaceInit ==
    /\ DbInit /\ TxIdle /\ CalcIdle /\ RolesIdle /\ MailIdle /\ UiIdle
    /\ auth = NoAuthCall
    /\ sessions = [c \in Callers |-> NoSession]
    /\ auth_users = [id \in {"u1"} |-> RegisteredUsers[id]]
    /\ user_profiles \in {<<>>, [id \in {"u1"} |-> profileData(RegisteredUsers[id])]}

RaceNext ==
    \/ \E c \in Callers, e \in Emails, u \in Usernames : BeginSignUp(c, e, u)
    \/ \E c \in Callers, o \in QueryOutcomes : CheckUsername(c, o)
    \/ \E c \in Callers, o \in AuthOutcomes : RegisterUser(c, o)

SpecRace == RaceInit /\ [][RaceNext]_vars

----------------------------------------------------------------------------
(* Properties of the post-order trigger *)

\* the step is an UPDATE of order o
UpdatedOrder(o) ==
    /\ last'.op = "update" /\ last'.order = o
    /\ o \in DOMAIN orders /\ o \in DOMAIN orders'

Points(row) == COALESCE(row.loyalty_points_earned, 0) - COALESCE(row.loyalty_points_used, 0)

\* C1: an update that moves an order linked to a profile from a status other
\* than 'served' to 'served' adds earned - used (NULL as 0) to the profile's
\* loyalty_points, total_amount to total_spent and 1 to total_visits; an update
\* that keeps the status at 'served' changes no profile.
C1_ServedTransitionCredits ==
    [][\A o \in OrderIds : UpdatedOrder(o) =>
          LET old_row == orders[o]
              new_row == orders'[o]
              ref     == new_row.customer_profile_id
          IN /\ (old_row.status # "served" /\ new_row.status = "served" /\ ref # NULL) =>
                   LET before == customer_profiles[ref[1]]
                       after  == customer_profiles'[ref[1]]
                   IN /\ after.loyalty_points = before.loyalty_points + Points(new_row)
                      /\ after.total_spent = before.total_spent + new_row.total_amount
                      /\ after.total_visits = before.total_visits + 1
             /\ (old_row.status = "served" /\ new_row.status = "served") =>
                   customer_profiles' = customer_profiles
    ]_vars

\* an order has just been moved into 'served' by an update and its profile holds
\* that one credit
C1_Witness ==
    /\ last.op = "update" /\ last.served_transition
    /\ last.order \in DOMAIN orders
    /\ LET row == orders[last.order]
       IN /\ row.customer_profile_id # NULL
          /\ row.loyalty_points_earned = Some(7)
          /\ customer_profiles[row.customer_profile_id[1]] =
                [total_visits |-> 1, total_spent |-> 3050, loyalty_points |-> 4]

\* C2: over any sequence of updates the trigger credits a profile for one order
\* at most once.
C2_CreditedAtMostOnce == \A o \in OrderIds : credit_count[o] <= 1

RECURSIVE SumPoints(_, _)
SumPoints(rows, S) ==
    IF S = {} THEN 0
    ELSE LET o == CHOOSE x \in S : TRUE
         IN Points(rows[o]) + SumPoints(rows, S \ {o})

ServedOrdersOf(p) ==
    {o \in DOMAIN orders :
        orders[o].status = "served" /\ orders[o].customer_profile_id = Some(p)}

\* C3: every profile's loyalty_points is its initial value (0) plus the sum of
\* earned - used over the served orders linked to it.
C3_PointsMatchServedOrders ==
    \A p \in DOMAIN customer_profiles :
        customer_profiles[p].loyalty_points =
            NewProfile.loyalty_points + SumPoints(orders, ServedOrdersOf(p))

\* C4: when two transactions move two different orders of one profile into
\* 'served' and both commit, the profile holds both credits, whatever the
\* interleaving.
C4_BothCreditsApplied ==
    (\A t \in TxnIds : tx[t].pc = "committed") =>
        /\ customer_profiles["p1"] =
              [total_visits   |-> NewProfile.total_visits + 2,
               total_spent    |-> NewProfile.total_spent
                                    + orders[1].total_amount + orders[2].total_amount,
               loyalty_points |-> NewProfile.loyalty_points
                                    + Points(orders[1]) + Points(orders[2])]
        /\ customer_profiles["p2"] = NewProfile

\* both committed, and one of them began while the other was in progress
C4_Witness ==
    /\ \A t \in TxnIds : tx[t].pc = "committed"
    /\ \E t \in TxnIds : tx[t].overlapped
    /\ \A o \in TxnIds : orders[o].status = "served"
    /\ customer_profiles["p1"].total_visits = 2

\* C5: an update that moves an order without a profile (customer_profile_id
\* NULL; the foreign key admits no other unmatched value) into 'served' goes
\* through and leaves every customer profile as it was.
C5_NoProfileNoOp ==
    [][\A o \in OrderIds :
          (/\ UpdatedOrder(o)
           /\ orders[o].status # "served"
           /\ orders'[o].status = "served"
           /\ orders'[o].customer_profile_id = NULL)
          => customer_profiles' = customer_profiles
    ]_vars

\* an order without a profile has just been moved into 'served'
C5_Witness ==
    /\ last.op = "update" /\ last.served_transition
    /\ last.order \in DOMAIN orders
    /\ orders[last.order].status = "served"
    /\ orders[last.order].customer_profile_id = NULL
    /\ customer_profiles = [p \in ProfileIds |-> NewProfile]

\* C20: an update of an order whose new status is not 'served', or whose old
\* status was 'served' already, leaves every customer profile as it was,
\* whatever columns of the order it changes.
C20_OtherUpdatesLeaveProfiles ==
    [][\A o \in OrderIds :
          (/\ UpdatedOrder(o)
           /\ (orders'[o].status # "served" \/ orders[o].status = "served"))
          => customer_profiles' = customer_profiles
    ]_vars

\* an order linked to p2 and carrying points has been updated to 'confirmed',
\* and no profile has ever been credited
C20_Witness ==
    /\ last.op = "update" /\ ~last.served_transition
    /\ last.order \in DOMAIN orders
    /\ orders[last.order] =
          OrderRow("confirmed",
                   [total_amount |-> 3050, loyalty_points_earned |-> Some(7),
                    loyalty_points_used |-> Some(3)],
                   Some("p2"))
    /\ customer_profiles = [p \in ProfileIds |-> NewProfile]
    /\ \A o \in OrderIds : credit_count[o] = 0

\* C19: the loyalty_points credited at the served transition are the order's own
\* loyalty_points_earned - loyalty_points_used as they were before the update,
\* whatever loyalty programs there are by then; a change of a loyalty program
\* changes neither an order nor a profile.
C19_CreditFromSnapshot ==
    [][/\ \A o \in OrderIds :
             (/\ UpdatedOrder(o)
              /\ orders[o].status # "served" /\ orders'[o].status = "served"
              /\ orders'[o].customer_profile_id # NULL)
             => LET p == orders'[o].customer_profile_id[1]
                IN customer_profiles'[p].loyalty_points =
                      customer_profiles[p].loyalty_points + Points(orders[o])
       /\ loyalty_programs' # loyalty_programs =>
             orders' = orders /\ customer_profiles' = customer_profiles
    ]_vars

\* an order that carries 7 earned and 3 used has been served and credited 4,
\* under an active program at rate 2.00 that came after the order and would
\* give 61 for its total of 30.50
C19_Witness ==
    /\ last.op = "update" /\ last.served_transition
    /\ last.order \in DOMAIN orders
    /\ orders[last.order].loyalty_points_earned = Some(7)
    /\ orders[last.order].total_amount = 3050
    /\ orders[last.order].customer_profile_id = Some("p1")
    /\ customer_profiles["p1"].loyalty_points = 4
    /\ \E i \in DOMAIN loyalty_programs :
          /\ loyalty_programs[i].is_active = Some(TRUE)
          /\ loyalty_programs[i].points_per_dollar = Some(200)

\* C16: the total_visits, total_spent and loyalty_points of a profile change only
\* in the step of an order update that is a served transition; no update issued
\* by a caller changes them.
C16_CountersOnlyByTrigger ==
    [][\A p \in DOMAIN customer_profiles \cap DOMAIN customer_profiles' :
          customer_profiles'[p] # customer_profiles[p] =>
              last'.op = "update" /\ last'.served_transition
    ]_vars

----------------------------------------------------------------------------
(* Properties of calculate_loyalty_points *)

\* n = FLOOR(x / 10000), said without division
IsFloorOf(n, x) == n * 10000 <= x /\ x < (n + 1) * 10000

\* the rates of the restaurant's active programs, a NULL rate read as 1.00
ActiveRates(r) ==
    {COALESCE(loyalty_programs[i].points_per_dollar, 100) :
        i \in {j \in DOMAIN loyalty_programs :
                 /\ loyalty_programs[j].restaurant_id = r
                 /\ loyalty_programs[j].is_active = Some(TRUE)}}

\* C6: the result is floor(order_total * rate), rate being points_per_dollar of
\* an active program of the restaurant (a NULL points_per_dollar counts as 1.00)
\* and 1.00 when it has none: 50 gives 50 without a program and 100 at rate
\* 2.00, and 49.90 at rate 1.00 gives 49.  The claim names no caller: it is
\* about every call.
C6_FloorOfTotalTimesRate ==
    calc.called =>
        LET rates == ActiveRates(calc.restaurant_uuid) IN
        /\ IF rates = {}
           THEN IsFloorOf(calc.result, calc.order_total * 100)
           ELSE \E rate \in rates : IsFloorOf(calc.result, calc.order_total * rate)
        /\ (calc.order_total = 5000 /\ rates = {}) => calc.result = 50
        /\ (calc.order_total = 5000 /\ rates = {200}) => calc.result = 100
        /\ (calc.order_total = 4990 /\ rates = {100}) => calc.result = 49

\* C7: whatever the order total and the loyalty programs, the result is a
\* non-negative integer.
C7_NonNegative == calc.called => calc.result >= 0

\* the programs of restaurant r with is_active = true
ActiveProgramsOf(r) ==
    {i \in DOMAIN loyalty_programs :
        loyalty_programs[i].restaurant_id = r /\ loyalty_programs[i].is_active = Some(TRUE)}

\* C21: the result is one the function gives the same caller on a table
\* holding only the restaurant's programs with is_active = true: it comes from
\* the rate of a single one of them, or from the default 1.00 when the caller's
\* SELECT reads none of them; inactive programs and programs of other
\* restaurants do not influence it, and with none active the rate is the
\* default 1.00.
C21_OnlyActiveOfRestaurant ==
    calc.called =>
        LET mine == ActiveProgramsOf(calc.restaurant_uuid)
            kept == [i \in mine |-> loyalty_programs[i]]
            read == {i \in mine : \/ calc.caller.role = "postgres"
                                   \/ loyalty_programs_policy(calc.caller, kept[i])}
        IN /\ calc.result \in
                 {calculate_loyalty_points(calc.order_total, selected) :
                     selected \in IF read = {} THEN {NULL}
                                  ELSE {kept[i].points_per_dollar : i \in read}}
           /\ mine = {} => IsFloorOf(calc.result, calc.order_total * 100)

\* a restaurant whose only program is inactive at rate 2.00, next to an active
\* program of another restaurant at rate 1.50, has got 50 points for 50.00
\* from a call that reads every row
C21_Witness ==
    /\ calc.called /\ calc.order_total = 5000 /\ calc.result = 50
    /\ calc.caller.role = "postgres"
    /\ ActiveProgramsOf(calc.restaurant_uuid) = {}
    /\ \E i \in DOMAIN loyalty_programs :
          /\ loyalty_programs[i].restaurant_id = calc.restaurant_uuid
          /\ loyalty_programs[i].is_active = Some(FALSE)
          /\ loyalty_programs[i].points_per_dollar = Some(200)
    /\ \E i \in DOMAIN loyalty_programs :
          /\ loyalty_programs[i].restaurant_id # calc.restaurant_uuid
          /\ loyalty_programs[i].is_active = Some(TRUE)
          /\ loyalty_programs[i].points_per_dollar = Some(150)

\* C22: the result is determined by the order total, the restaurant and the
\* contents of loyalty_programs: whichever matching row the SELECT ... LIMIT 1
\* of this caller returns, the function gives the number of points this call
\* gave.
C22_Deterministic ==
    calc.called =>
        \A selected \in SelectedRates(VisiblePrograms(calc.caller, loyalty_programs),
                                      calc.restaurant_uuid) :
            calculate_loyalty_points(calc.order_total, selected) = calc.result

----------------------------------------------------------------------------
(* Properties of the default staff roles *)

RolesOf(r) == {name \in RoleNames : staff_roles[<<r, name>>] > 0}

RECURSIVE CountRows(_, _)
CountRows(r, names) ==
    IF names = {} THEN 0
    ELSE LET name == CHOOSE x \in names : TRUE
         IN staff_roles[<<r, name>>] + CountRows(r, names \ {name})

\* C8: right after a restaurant row is inserted the restaurant has exactly four
\* staff_roles rows, named Manager, Waiter, Chef and Cashier.
C8_FourDefaultRoles ==
    (roles_last.op = "insert_restaurant" /\ roles_last.ok) =>
        /\ roles_last.restaurant \in restaurants
        /\ CountRows(roles_last.restaurant, RoleNames) = 4
        /\ RolesOf(roles_last.restaurant) = {"Manager", "Waiter", "Chef", "Cashier"}

\* a restaurant has just been inserted and holds role rows
C8_Witness ==
    /\ roles_last.op = "insert_restaurant" /\ roles_last.ok
    /\ roles_last.restaurant \in restaurants
    /\ RolesOf(roles_last.restaurant) # {}

\* C17: no restaurant ever has two staff_roles rows with the same name, also
\* after create_default_staff_roles is invoked again for a restaurant that has
\* roles and after a restaurant is deleted and inserted again.
C17_NoDuplicateRoles ==
    \A r \in RestaurantIds, name \in RoleNames : staff_roles[<<r, name>>] <= 1

\* create_default_staff_roles has just been invoked again for a restaurant that
\* had its default roles: the call failed and every role is there once
C17_Witness ==
    /\ roles_last.op = "create_default_staff_roles" /\ ~roles_last.ok
    /\ roles_last.restaurant \in restaurants
    /\ \A name \in DefaultRoleNames : staff_roles[<<roles_last.restaurant, name>>] = 1

----------------------------------------------------------------------------
(* Properties of the email handlers *)

\* the last request has been answered
Served == serving.pc = "done"

\* the request got as far as wh.verify
ReachedVerify ==
    /\ Served /\ request.method # "OPTIONS"
    /\ request.body_readable /\ request.parseable
    /\ ~NotConfigured(serving.secrets) /\ request.imports_ok

\* C9: every request other than OPTIONS is answered with status 200 and
\* success: true, whichever step failed.
C9_AlwaysSuccess200 ==
    (Served /\ request.method # "OPTIONS") =>
        response.status = 200 /\ response.success = Some(TRUE)

\* a request whose signature check failed has been answered 200, success: true
C9_Witness ==
    /\ ReachedVerify /\ ~request.signature_ok
    /\ request.handler = "send-reset-email"
    /\ response.status = 200 /\ response.success = Some(TRUE)

Contains(text, phrase) == ContainsFrom(text, phrase, 1)

NamesVerificationIssue(resp) ==
    IF resp.message = NULL THEN FALSE
    ELSE Contains(resp.message[1], <<"webhook", "verification", "issue">>)

\* C10: a request that fails signature verification is answered 200 with
\* success: true and a message naming the webhook verification issue; no other
\* outcome carries such a message.
C10_VerificationDiagnostic ==
    Served =>
        IF ReachedVerify /\ ~request.signature_ok
        THEN /\ response.status = 200
             /\ response.success = Some(TRUE)
             /\ NamesVerificationIssue(response)
        ELSE ~NamesVerificationIssue(response)

\* the verification handler has just answered a request with a bad signature
C10_Witness ==
    /\ ReachedVerify /\ ~request.signature_ok
    /\ request.handler = "send-verification-email"
    /\ response.message =
          Some(<<"Signup", "completed", "-", "email", "verification", "skipped", "due",
                 "to", "webhook", "verification", "issue">>)

\* C11: every response to a POST request has status 200 and a JSON body with
\* both a success field and a message field, on the delivered path as on every
\* failure path.
C11_SuccessAndMessage ==
    (Served /\ request.method = "POST") =>
        /\ response.status = 200
        /\ response.success # NULL
        /\ response.message # NULL

\* the request failed before resend.emails.send was reached
FailedBeforeSend ==
    \/ ~request.body_readable \/ ~request.parseable
    \/ NotConfigured(serving.secrets)
    \/ ~request.imports_ok \/ ~request.signature_ok \/ ~request.shape_ok

\* C12: resend.emails.send is called only in a POST request for which the
\* handler read both secrets as configured and after wh.verify has succeeded;
\* a request that fails before that point sends nothing.
C12_SendOnlyAfterVerify ==
    /\ send_called =>
          /\ request.method = "POST"
          /\ \A k \in Secrets : serving.secrets[k] = "set"
          /\ request.imports_ok /\ request.signature_ok
    /\ (Served /\ FailedBeforeSend) => ~send_called

\* a verified request read both secrets, was sent and answered, and a secret
\* was removed while the handler awaited the send
C12_Witness ==
    /\ Served /\ send_called /\ request.send = "ok"
    /\ request.signature_ok
    /\ \A k \in Secrets : serving.secrets[k] = "set"
    /\ env["RESEND_API_KEY"] = "unset"
    /\ response = delivered_response

\* what the older version of the handler answers to the request just served
Older == handler_older(serving.secrets, request).response

\* C26: to every request, whatever its method, payload, the secrets, the
\* imports, the signature and the outcome of the send, the older and the
\* current version of a handler answer with the same HTTP status and the same
\* success value; the message is all that can differ.
C26_OlderAndCurrentAgree ==
    Served => /\ Older.status = response.status
              /\ Older.success = response.success

\* a payload that does not parse: the current version says so, the older one
\* goes on to the secrets and reports a configuration issue
C26_Witness ==
    /\ Served
    /\ request.method = "POST" /\ request.body_readable /\ ~request.parseable
    /\ \A k \in Secrets : serving.secrets[k] = "set"
    /\ response = parse_error_response(request.handler)
    /\ Older = older_catch_response(request.handler)
    /\ Older.message # response.message

----------------------------------------------------------------------------
(* Properties of customer_loyalty_view *)

TierRank(tier) ==
    IF tier = "VIP" THEN 3 ELSE IF tier = "Gold" THEN 2 ELSE IF tier = "Silver" THEN 1 ELSE 0

\* C29: while only the trigger writes customer_profiles, no step lowers a
\* customer's total_visits, and so the customer's loyalty_tier (Bronze below 10
\* visits, Silver from 10, Gold from 20, VIP from 50) never moves to a lower tier.
C29_TierNeverDrops ==
    [][\A p \in DOMAIN customer_profiles \cap DOMAIN customer_profiles' :
          /\ customer_profiles'[p].total_visits >= customer_profiles[p].total_visits
          /\ TierRank(loyalty_tier(customer_profiles'[p].total_visits))
                >= TierRank(loyalty_tier(customer_profiles[p].total_visits))
          /\ loyalty_tier(customer_profiles'[p].total_visits) =
                (IF customer_profiles'[p].total_visits < 10 THEN "Bronze"
                 ELSE IF customer_profiles'[p].total_visits < 20 THEN "Silver"
                 ELSE IF customer_profiles'[p].total_visits < 50 THEN "Gold"
                 ELSE "VIP")]_vars

\* an order was served twice and took a customer past the Silver boundary
C29_Witness ==
    /\ last.op = "update" /\ last.served_transition
    /\ \E p \in DOMAIN customer_profiles :
          /\ customer_profiles[p].total_visits = 11
          /\ loyalty_tier(customer_profiles[p].total_visits) = "Silver"

----------------------------------------------------------------------------
(* Properties of authService *)

SignedIn == auth.op = "signIn"

ByUsername == SignedIn /\ ~isEmail(auth.identifier)

\* no auth user has the email of a profile named username and this password
WrongPassword(username, password) ==
    ~\E id \in UsernameRows(username), u \in DOMAIN auth_users :
        /\ user_profiles[id].email = Some(auth_users[u].email)
        /\ auth_users[u].password = password

\* what signIn can return for this identifier when no profile carries it:
\* the call ends with the answer to its profiles query
ErrorsForUnknownUsername(identifier) ==
    LET others == [id \in DOMAIN user_profiles \ UsernameRows(identifier) |-> user_profiles[id]]
    IN {signIn_lookup(others, identifier, lookup).error : lookup \in QueryOutcomes}

\* C13: a failed signIn by username returns, for an existing username with a
\* wrong password, an error that a username that does not exist gets as well
\* (the generic invalid-credentials error when the backend rejects the login),
\* whatever the profile lookup and the auth backend do: the result never tells
\* whether the username exists.
C13_NoEnumerationLeak ==
    (/\ ByUsername /\ auth.result.error # NULL
     /\ auth.existed /\ UsernameRows(auth.identifier) # {}
     /\ WrongPassword(auth.identifier, auth.password))
    => auth.result.error \in ErrorsForUnknownUsername(auth.identifier)

\* the substrings each function looks for in the backend's message
RecognisedPhrases(op) ==
    IF op = "signUp"
    THEN {<<"User", "already", "registered">>, <<"Password", "should", "be", "at", "least">>,
          <<"Invalid", "email">>}
    ELSE IF op = "signIn"
    THEN {<<"Email", "not", "confirmed">>, <<"Invalid", "login", "credentials">>,
          <<"Too", "many", "requests">>}
    ELSE {<<"For", "security", "purposes">>, <<"Unable", "to", "validate", "email", "address">>}

\* the backend returned an error whose message has none of the substrings
UnrecognisedError ==
    /\ auth.backend_error # NULL
    /\ \A phrase \in RecognisedPhrases(auth.op) : ~includes(auth.backend_error[1], phrase)

\* C14 as stated: in signUp, signIn and resetPassword a backend error whose
\* message contains none of the recognised substrings is returned with the
\* backend's raw message unchanged.
C14_UnmatchedPassThrough == UnrecognisedError => auth.result.error = auth.backend_error

\* C14 amended: signUp and resetPassword return such an error with the raw
\* message unchanged; signIn replaces it by its generic invalid-credentials
\* message, worded for an email or for a username.
C14_UnmatchedRawOrGeneric ==
    UnrecognisedError =>
        IF SignedIn
        THEN auth.result.error =
                Some(IF isEmail(auth.identifier) THEN InvalidEmailOrPassword
                     ELSE InvalidUsernameOrPassword)
        ELSE auth.result.error = auth.backend_error

\* signUp has returned a backend error it does not recognise as it came
C14_Witness ==
    /\ auth.op = "signUp"
    /\ auth.backend_error = Some(<<"Database", "error", "querying", "schema">>)
    /\ auth.result.error = Some(<<"Database", "error", "querying", "schema">>)

\* C15: after a signIn that returns error: null, profiles has a row whose id is
\* the id of the signed-in user.
C15_ProfileExistsAfterSignIn ==
    (SignedIn /\ auth.result.error = NULL) =>
        /\ auth.user # NULL
        /\ auth.user[1] \in DOMAIN user_profiles

\* the calls of signIn: those in progress and the one that has just returned
SignIns == {sessions[c] : c \in Callers} \cup {auth}

LoginCalls(calls) == {i \in DOMAIN calls : calls[i].api = "auth.signInWithPassword"}

\* C18: for an identifier containing '@' the first request signIn makes is the
\* password authentication with that identifier as email, and no query on
\* profiles comes before it; for any other identifier the first request is the
\* profiles query by username, password authentication follows only if exactly
\* one row answered it with an email, and then with exactly that email.
C18_IdentifierRouting ==
    /\ [](\A call \in SignIns :
            call.op = "signIn" =>
                IF \E i \in DOMAIN call.identifier : call.identifier[i] = "@"
                THEN /\ LoginCalls(call.calls) = {1}
                     /\ call.calls[1] =
                           Call("auth.signInWithPassword", "email",
                                <<call.identifier, call.password>>)
                ELSE /\ call.calls[1] = Call("profiles.select", "username", call.identifier)
                     /\ LoginCalls(call.calls) \subseteq {2})
    /\ [][\A c \in Callers :
            (sessions[c].pc = "idle" /\ sessions'[c].pc = "login") =>
                LET call == sessions'[c]
                IN /\ Cardinality(UsernameRows(call.identifier)) = 1
                   /\ \A id \in UsernameRows(call.identifier) :
                         /\ user_profiles[id].email # NULL
                         /\ call.calls[2] =
                               Call("auth.signInWithPassword", "email",
                                    <<user_profiles[id].email[1], call.password>>)]_vars

\* a username has been resolved through profiles and authenticated with the
\* email of its row
C18_Witness ==
    /\ ByUsername /\ auth.identifier = <<"alice">>
    /\ Len(auth.calls) >= 2
    /\ auth.calls[2] = Call("auth.signInWithPassword", "email", <<AliceEmail, auth.password>>)
    /\ auth.result.error = NULL


\* the calls of signUp: those in progress and the one that has just returned
SignUps == {sessions[c] : c \in Callers} \cup {auth}

CallsTo(api, calls) == {i \in DOMAIN calls : calls[i].api = api}

\* a signUp returns in this step on the answer to its username query: the
\* call was made and has returned, and no call in progress has moved
ReturnsOnCheck == auth = NoAuthCall /\ auth'.op = "signUp" /\ sessions' = sessions

\* C23: signUp asks the auth backend to sign up only as its second request,
\* after the profiles query by username found no profile with the username;
\* when a profile with the username exists as the query is answered the call
\* stops there with the 'Username already exists' error, or with the error of
\* the failed query; a call that returns the username-exists or the
\* username-availability error has made no request to the auth backend and
\* leaves the accounts as they were.
C23_SignUpAfterLookup ==
    /\ [](\A call \in SignUps :
            call.op = "signUp" =>
                /\ call.calls[1].api = "profiles.select"
                /\ CallsTo("auth.signUp", call.calls) \subseteq {2})
    /\ [][/\ \A c \in Callers :
              (sessions[c].pc = "idle" /\ sessions'[c].pc = "register") =>
                  /\ sessions'[c].calls[1] =
                        Call("profiles.select", "username", sessions'[c].username)
                  /\ UsernameRows(sessions'[c].username) = {}
          /\ ReturnsOnCheck =>
                  LET rows  == UsernameRows(auth'.calls[1].value)
                      error == auth'.result.error
                  IN /\ auth'.calls = <<Call("profiles.select", "username", auth'.username)>>
                     /\ auth_users' = auth_users
                     /\ rows # {} =>
                           error \in {Some(UsernameExists), Some(UsernameCheckFailed)}
                               \cup {Some(caught(m, SignupFailed)) : m \in ThrownMessages}
          /\ (auth'.op = "signUp"
                /\ auth'.result.error \in {Some(UsernameExists), Some(UsernameCheckFailed)}) =>
                  /\ CallsTo("auth.signUp", auth'.calls) = {}
                  /\ auth_users' = auth_users]_vars

\* the call that returns in this step ran ensureProfileExists
Ensuring ==
    \E i \in DOMAIN auth'.calls :
        auth'.calls[i].api = "profiles.select" /\ auth'.calls[i].column = "id"

\* C25: a signIn that got as far as ensureProfileExists, which it does once
\* the password authentication has succeeded, returns error: null whatever the
\* profile query and the insert do; and no step of ensureProfileExists, in
\* whatever order the requests of concurrent calls are answered, changes or
\* doubles a profile that exists: a row appears only for a user without one,
\* through the insert of a call that signed this user in.
C25_EnsureProfileSwallows ==
    [][/\ (auth'.op = "signIn" /\ Ensuring) => auth'.result.error = NULL
       /\ \A id \in DOMAIN user_profiles :
             /\ id \in DOMAIN user_profiles'
             /\ user_profiles'[id] = user_profiles[id]
       /\ \A id \in DOMAIN user_profiles' \ DOMAIN user_profiles :
             \E c \in Callers : sessions[c].pc = "insert" /\ sessions[c].user = <<id>>]_vars

\* a signIn returned error: null although the insert of the missing profile failed
C25_Witness ==
    /\ SignedIn /\ auth.result.error = NULL /\ auth.user # NULL
    /\ Len(auth.calls) >= 2
    /\ auth.calls[Len(auth.calls)].api = "profiles.insert"
    /\ auth.user[1] \notin DOMAIN user_profiles


----------------------------------------------------------------------------
(* Properties of concurrent signUp calls *)

\* C24: of two signUp calls with the same username that run concurrently, at
\* most one passes the username check and reaches the auth backend's signUp,
\* and once both have returned the other has the 'Username already exists'
\* error unless its username query failed.
C24_OneSignUpPerUsername ==
    \A c, d \in Callers :
        (/\ c # d
         /\ signups[c].concurrent /\ signups[d].concurrent
         /\ signups[c].username = signups[d].username)
        => /\ ~(signups[c].reached /\ signups[d].reached)
           /\ (signups[c].reached /\ signups[d].pc = "done") =>
                 signups[d].result.error
                     \in {Some(UsernameExists), Some(UsernameCheckFailed)}
                         \cup {Some(caught(m, SignupFailed)) : m \in ThrownMessages}


----------------------------------------------------------------------------
(* Properties of the Auth page *)

\* C27: a handleSubmit whose validateForm fails calls no auth operation and
\* leaves loading and every other state value as they were; one whose
\* validateForm passes sets loading and calls exactly one auth operation; and
\* whenever loading is set, it is cleared again once the operation has
\* returned without error, returned an error or thrown.
C27_LoadingSetAndCleared ==
    /\ [][page_last'.event = "submit" =>
            IF validateForm(page)
            THEN /\ page'.loading
                 /\ BagCardinality(inflight') = BagCardinality(inflight) + 1
            ELSE page' = page /\ inflight' = inflight]_vars
    /\ [][page_last'.event = "settle" => ~page'.loading]_vars
    /\ (page.loading ~> ~page.loading)

\* the auth operation of a submission threw and loading is cleared
C27_Witness ==
    /\ page_last = PageEvent("settle", "throws")
    /\ ~page.isLogin /\ page.username # <<>>
    /\ ~page.loading /\ inflight = EmptyBag

\* C28: whatever the user does with the mode toggle, the forgot-password link,
\* the back arrow, the submit button and Back to Login, and whenever the
\* awaited auth operation settles in between, isForgotPassword implies isLogin
\* and showEmailSent and showResetSent are not both true.
C28_OneScreen ==
    /\ page.isForgotPassword => page.isLogin
    /\ ~(page.showEmailSent /\ page.showResetSent)

\* a sign-up settled after the user had moved on to the reset form: the
\* confirmation screen is shown over it
C28_Witness ==
    /\ page_last = PageEvent("settle", "ok")
    /\ page.showEmailSent /\ page.isForgotPassword /\ page.isLogin


----------------------------------------------------------------------------
(* Properties of update_daily_sales_summary *)

SummaryRowsOf(r, day) ==
    {row \in DOMAIN daily_sales_summary : row.restaurant_id = r /\ row.date = day}

\* C30: a run of update_daily_sales_summary that follows a run with no change
\* of orders in between leaves daily_sales_summary as it found it; there is
\* never more than one row per restaurant and date; and right after a run each
\* row's total_orders and total_revenue are the count and the sum of
\* total_amount of that restaurant's orders created on that date.
C30_IdempotentAndExact ==
    /\ (sales_last.op = "run" /\ sales_last.repeat) => daily_sales_summary = sales_last.before
    /\ \A r \in RestaurantIds, day \in 1..MaxDate :
          Copies(daily_sales_summary, SummaryRowsOf(r, day)) <= 1
    /\ sales_last.op = "run" =>
          \A row \in DOMAIN daily_sales_summary :
              LET rows == OrdersOn(sales_orders, row.restaurant_id, row.date)
              IN /\ row.total_orders = Cardinality(rows)
                 /\ row.total_revenue = SumAmount(sales_orders, rows)

====
